---- MODULE Spec2Model ----
(***************************************************************************)
(* State-management engine of the shortcut canvas (src/shortcut.py):       *)
(* the undo/redo history of ShortcutsApp, the shortcut buttons it          *)
(* snapshots, the selection flags the batch operations read and the        *)
(* modal file editor.                                                      *)
(*                                                                         *)
(* Python object identity is modelled structurally.  Every live button     *)
(* owns a data dict.  restore_state_from_history hands the dicts of the    *)
(* restored history entry to the new buttons (lines 1080-1081, 337), so    *)
(* after an undo/redo the live dict of button i IS dict number             *)
(* buttons[i].ref of history entry number `aliased`; ref = 0 means the     *)
(* dict is owned by the button alone.  Every write to a live dict is       *)
(* therefore also a write to that entry (operator alias_sync).             *)
(*                                                                         *)
(* winfo_x() / winfo_y() of a button are the position last given to its     *)
(* place() (fields wx, wy); data["x"], data["y"] are kept apart from them.  *)
(* Dialogs are modal: while the file editor is open only its own handlers  *)
(* run (grab_set, line 175).                                               *)
(*                                                                         *)
(* history_index keeps the code's 0-based value (-1 when empty); the entry *)
(* it designates is history[history_index + 1].                            *)
(*                                                                         *)
(* Pointer input.  Between a button press and its release Tk delivers the  *)
(* motion and release events to the widget that got the press              *)
(* (gesture.widget, gesture.btn).  Pointer positions are in the            *)
(* coordinates of buttons_frame; event.x, event.y of a button handler are  *)
(* the pointer position minus the button's placed position.  The canvas    *)
(* overlay fills buttons_frame, so its coordinates are the same.           *)
(*                                                                         *)
(* The file system (fsys) gives the identity number of every path, 0 for   *)
(* a path that does not exist and -1 for a directory entry that os.stat    *)
(* fails on (a dangling link): scandir lists it, os.path.exists is False.  *)
(* No two existing paths share an identity (no hard links).  A directory   *)
(* exists while it has an entry.                                           *)
(***************************************************************************)
EXTENDS Integers, Sequences, FiniteSets, TLC

\* ------------------------------------------------------------------ bounds
\* Largest number of shortcut buttons on the canvas.
MaxButtons == 2
\* Number of handler invocations explored from the start of the session.
MaxSteps == 5
\* Longest file list of a shortcut or of the editor's working copy.
MaxFiles == 2
\* ShortcutsApp.max_history (50 in the code), scaled down so that the
\* overflow branch of save_state_to_history is exercised.
max_history == 3
\* Number of pointer / key events explored in the gesture specifications.
MaxEvents == 8
\* Steps of a behaviour of the file-tracking specification.
MaxFileEvents == 6

\* ------------------------------------------------------- program constants
grid_size == 5
\* Size of buttons_frame under the default window geometry "800x600+100+100".
DefaultW == 800
DefaultH == 600
DefaultFontSize == 11
LargeFontSize == 24

\* ------------------------------------------------------------ input domains
\* Text a rename / batch-rename dialog can return; "" is a cancelled or
\* empty dialog (dlg.user_input is None or "").
NameInputs == {"", "a"}
DefaultColor == "#1f6aa5"
\* Colours picked in the colour menus (one entry of the palette of line 1179).
ColorInputs == {"#d42c2c"}
\* Paths are sequences of components; the normalized ones are
\* <<directory, basename>> pairs.
Paths == {"d1", "d2"} \X {"f", "g"}
\* Paths as a caller can spell them: also with a "." component (d1/./f).
RawPaths == Paths \cup {<<"d1", ".", "f">>, <<"d2", ".", "g">>}
\* The file system at start-up: d1/f and d2/f exist.
StartFiles ==
    [p \in Paths |-> IF p = <<"d1", "f">> THEN 11 ELSE IF p = <<"d2", "f">> THEN 12 ELSE 0]
FontSizes == {DefaultFontSize, LargeFontSize}

VARIABLES
    buttons,        \* ShortcutsApp.buttons: the live ShortcutButton widgets
    config,         \* ShortcutsApp.config
    buttons_locked, \* ShortcutsApp.buttons_locked
    history,        \* ShortcutsApp.history
    history_index,  \* ShortcutsApp.history_index
    aliased,        \* index in history of the entry whose dicts the live buttons hold (0: none)
    editor,         \* the open EditorWindow, or NoEditor
    loaded,         \* load_buttons_from_data has run
    saved,          \* self.data["buttons"] as read by load_data
    pushed,         \* history variable: pushed[i] is history[i] as it was when pushed
    op,             \* history variable: the handler that ran last
    npush,          \* history variable: checkpoints pushed by that handler
    pre,            \* history variable: the state before the last handler
    arg,            \* history variable: the inputs of that handler (dialog answers, dropped paths)
    steps,          \* handler invocations so far
    gesture,        \* the pointer gesture in progress and the buttons' drag attributes
    marquee,        \* SelectionManager: start point, rectangle, is_dragging, preview borders
    fsys,           \* the file system: identity number of every path (0: none, -1: stat fails)
    refs,           \* a tracked file entry under resolution, and what resolving it returned
    frame,          \* <<winfo_width(), winfo_height()>> of buttons_frame
    worker,         \* the thread started by drop_files_on_window and what it holds
    startup,        \* DATA_FILE as load_data finds it, and how far ShortcutsApp.__init__ got
    links           \* the last run of create_symlinks: the folder chosen and the three lists

vars == <<buttons, config, buttons_locked, history, history_index, aliased,
          editor, loaded, saved, pushed, op, npush, pre, arg, steps,
          gesture, marquee, fsys, refs, frame, worker, startup, links>>

\* What the handlers of the history, batch and editor operations leave alone.
surroundings == <<gesture, marquee, fsys, refs, frame, worker, startup, links>>

FrameW == frame[1]
FrameH == frame[2]

\* The paths that exist (os.path.exists).
ExistingPaths == {p \in Paths : fsys[p] > 0}

NoEditor ==
    [open |-> FALSE, btn |-> 0, file_list |-> <<>>, src |-> <<>>, tree |-> <<>>,
     original |-> <<>>]

Max(a, b) == IF a > b THEN a ELSE b
Min(a, b) == IF a < b THEN a ELSE b

\* Python round(): nearest integer to n/d, ties to the even one.
PyRound(n, d) ==
    LET q == n \div d
        r == n % d
    IN  IF 2 * r < d THEN q
        ELSE IF 2 * r > d THEN q + 1
        ELSE IF q % 2 = 0 THEN q ELSE q + 1

snap_to_grid(x, y) == <<PyRound(x, grid_size) * grid_size, PyRound(y, grid_size) * grid_size>>

get_button_size(cfg) == <<Max(60, cfg.font_size * 8), Max(20, cfg.font_size + 10)>>

\* ShortcutButton.to_dict: the position is the widget's placed position.
to_dict(b) ==
    [name |-> b.data.name, files |-> b.data.files,
     x |-> b.wx, y |-> b.wy, color |-> b.data.color]

\* The state the app works on, threaded through the handler bodies.
App ==
    [buttons |-> buttons, config |-> config, history |-> history,
     history_index |-> history_index, aliased |-> aliased, pushed |-> pushed,
     npush |-> 0]

Indices(seq) == [i \in 1..Len(seq) |-> i]

\* ------------------------------------------------------------ file tracking
\* os.stat(p).st_ino of an existing path.
Inode(p) == fsys[p]

\* os.path.normpath: "." and empty components are dropped, a ".." component
\* takes the component before it away.
RECURSIVE normpath(_)
normpath(path) ==
    IF path = <<>> THEN <<>>
    ELSE LET front == normpath(SubSeq(path, 1, Len(path) - 1))
             last == path[Len(path)]
         IN  IF last \in {".", ""} THEN front
             ELSE IF last = ".." /\ front # <<>> THEN SubSeq(front, 1, Len(front) - 1)
             ELSE Append(front, last)

get_file_info(raw) ==
    LET path == normpath(raw)
    IN  [path |-> path,
         inode |-> IF path \in ExistingPaths THEN Inode(path) ELSE 0,
         parent |-> path[1]]

\* isinstance(file_entry, str): an entry of an old save, a bare path string.
IsLegacy(file_entry) == DOMAIN file_entry = {"str"}

\* Basenames in the order os.scandir yields the entries of a directory.
Names == <<"f", "g">>

\* os.scandir(parent): the entries of the directory, probe-able or not.
scandir(parent) ==
    SelectSeq([i \in DOMAIN Names |-> <<parent, Names[i]>>],
              LAMBDA q : q \in Paths /\ fsys[q] # 0)

\* os.path.isdir(parent)
isdir(parent) == scandir(parent) # <<>>

\* Mutant: the first entry whose probe fails ends the scan.
RECURSIVE scan_until_error(_, _)
scan_until_error(entries, inode) ==
    IF entries = <<>> THEN <<>>
    ELSE IF fsys[Head(entries)] < 0 THEN <<>>
    ELSE IF fsys[Head(entries)] = inode THEN Head(entries)
    ELSE scan_until_error(Tail(entries), inode)

\* The loop of lines 57-64: the first entry whose st_ino is `inode`, <<>>
\* when there is none; an entry os.stat fails on is passed over.
RECURSIVE scan(_, _)
scan(entries, inode) ==
    IF entries = <<>> THEN <<>>
    ELSE IF fsys[Head(entries)] < 0 THEN scan(Tail(entries), inode)
    ELSE IF fsys[Head(entries)] = inode THEN Head(entries)
    ELSE scan(Tail(entries), inode)

\* Mutant: the identity scan is done first, the cached path is the fallback.
resolve_identity_first(file_entry) ==
    IF IsLegacy(file_entry) THEN file_entry.str
    ELSE LET hit == IF file_entry.inode # 0 /\ isdir(file_entry.parent)
                    THEN scan(scandir(file_entry.parent), file_entry.inode) ELSE <<>>
         IN  IF hit # <<>> THEN hit ELSE file_entry.path

\* Mutant: the cached path is returned without looking at the file system.
return_cached_path(file_entry) ==
    IF IsLegacy(file_entry) THEN file_entry.str ELSE file_entry.path

resolve_file_path(file_entry) ==
    IF IsLegacy(file_entry) THEN file_entry.str
    ELSE LET path == file_entry.path
             inode == file_entry.inode
             parent == file_entry.parent
             hit == IF inode # 0 /\ parent # "" /\ isdir(parent)
                    THEN scan(scandir(parent), inode) ELSE <<>>
         IN  IF path \in ExistingPaths THEN path
             ELSE IF hit # <<>> THEN hit
             ELSE path

\* The file entry after resolve_file_path(file_entry): line 61 stores the
\* path that was found, every other return leaves the entry as it was.
resolved_entry(file_entry) ==
    IF IsLegacy(file_entry) THEN file_entry
    ELSE [file_entry EXCEPT !.path = resolve_file_path(file_entry)]

\* Mutant: the strings of an old save are kept as they are.
keep_file_list(files) == files

\* The entries of a list after each was given to resolve_file_path, and
\* the paths those calls returned.
resolve_all(files) == [i \in DOMAIN files |-> resolved_entry(files[i])]
ResolvedSeq(files) == [i \in DOMAIN files |-> resolve_file_path(files[i])]

\* normalize_file_list: strings become tracked entries, dicts are kept.
normalize_file_list(files) ==
    [i \in DOMAIN files |->
        IF IsLegacy(files[i]) THEN get_file_info(files[i].str) ELSE files[i]]

\* ----------------------------------------------------------------- aliasing
\* The live dicts that are dicts of history entry a.aliased are that entry's
\* dicts: the entry shows every write made to them.
alias_sync(a) ==
    IF a.aliased = 0 THEN a
    ELSE LET old == a.history[a.aliased].buttons
             holders(k) == {i \in DOMAIN a.buttons : a.buttons[i].ref = k}
             new == [k \in DOMAIN old |->
                        IF holders(k) # {}
                        THEN a.buttons[CHOOSE i \in holders(k) : TRUE].data
                        ELSE old[k]]
         IN  [a EXCEPT !.history[a.aliased].buttons = new]

\* btn.data[...] = ... on live button i.
set_data(a, i, d) == alias_sync([a EXCEPT !.buttons[i].data = d])

\* The editor's rows: file_list is the working copy, tree[i] the resolved
\* path shown in row i since the last refresh_list, and src[i] tells which
\* dict file_list[i] is: number src[i] of the button's own list (the copy
\* of line 171 is a new list of the same dicts), 0 for a dict made in the
\* editor.  History field: original is _original_file_list (line 172) as
\* the dicts were when the editor had shown them.
EditorWindow(b, files) ==
    [open |-> TRUE, btn |-> b, file_list |-> resolve_all(files),
     src |-> Indices(files), tree |-> ResolvedSeq(files),
     original |-> resolve_all(files)]

\* Every dict of button b's file list was given to resolve_file_path.
resolve_button_files(a, b) ==
    LET files == a.buttons[b].data.files
    IN  IF resolve_all(files) = files THEN a
        ELSE set_data(a, b, [a.buttons[b].data EXCEPT !.files = resolve_all(files)])

\* The live buttons once the entry they alias has left the history.
drop_refs(bs) == [i \in DOMAIN bs |-> [bs[i] EXCEPT !.ref = 0]]

\* ------------------------------------------------------------------ history
current_state(a) ==
    [buttons |-> [i \in DOMAIN a.buttons |-> to_dict(a.buttons[i])],
     config |-> a.config]

\* Mutant: the redo branch is kept when a checkpoint is pushed.
keep_branch(a) == a

\* history = history[:history_index + 1], when the index is not the last one.
discard_branch(a) ==
    IF a.history_index < Len(a.history) - 1
    THEN [a EXCEPT !.history = SubSeq(a.history, 1, a.history_index + 1),
                   !.pushed = SubSeq(a.pushed, 1, a.history_index + 1),
                   !.aliased = IF a.aliased > a.history_index + 1 THEN 0 ELSE a.aliased]
    ELSE a

\* history.append(copy.deepcopy(current_state)); history_index += 1
append_state(a) ==
    [a EXCEPT !.history = Append(a.history, current_state(a)),
              !.pushed = Append(a.pushed, current_state(a)),
              !.history_index = a.history_index + 1,
              !.npush = a.npush + 1]

\* Mutant: the history is never trimmed.
drop_never(a) == a

\* Mutant: the oldest entry is dropped but the index is not decremented.
drop_oldest_keep_index(a) ==
    IF Len(a.history) > max_history
    THEN [a EXCEPT !.history = Tail(a.history),
                   !.pushed = Tail(a.pushed),
                   !.aliased = IF a.aliased > 0 THEN a.aliased - 1 ELSE 0,
                   !.buttons = IF a.aliased = 1 THEN drop_refs(a.buttons) ELSE a.buttons]
    ELSE a

\* if len(history) > max_history: history.pop(0); history_index -= 1
drop_oldest(a) ==
    IF Len(a.history) > max_history
    THEN [a EXCEPT !.history = Tail(a.history),
                   !.pushed = Tail(a.pushed),
                   !.history_index = a.history_index - 1,
                   !.aliased = IF a.aliased > 0 THEN a.aliased - 1 ELSE 0,
                   !.buttons = IF a.aliased = 1 THEN drop_refs(a.buttons) ELSE a.buttons]
    ELSE a

save_state_to_history(a) == drop_oldest(append_state(discard_branch(a)))

\* ShortcutsApp.create_shortcut_button: the button made from dict `data`,
\* which is dict number `ref` of the entry being restored (0: a fresh dict).
create_shortcut_button(cfg, data, ref) ==
    LET sz == get_button_size(cfg)
        max_x == IF FrameW > 0 THEN FrameW - sz[1] - 10 ELSE 700
        max_y == IF FrameH > 0 THEN FrameH - sz[2] - 10 ELSE 500
        x == Max(8, Min(data.x, max_x))
        y == Max(8, Min(data.y, max_y))
    IN  [data |-> [data EXCEPT !.files = normalize_file_list(data.files), !.x = x, !.y = y],
         wx |-> x, wy |-> y, selected |-> FALSE, ref |-> ref]

restore_state_from_history(a) ==
    IF 0 <= a.history_index /\ a.history_index < Len(a.history)
    THEN LET state == a.history[a.history_index + 1]
         IN  alias_sync(
                 [a EXCEPT !.buttons = [k \in DOMAIN state.buttons |->
                                           create_shortcut_button(a.config, state.buttons[k], k)],
                           !.aliased = a.history_index + 1,
                           !.config = state.config])
    ELSE a

undo(a) ==
    IF a.history_index > 0
    THEN restore_state_from_history([a EXCEPT !.history_index = a.history_index - 1])
    ELSE a

redo(a) ==
    IF a.history_index < Len(a.history) - 1
    THEN restore_state_from_history([a EXCEPT !.history_index = a.history_index + 1])
    ELSE a

\* ------------------------------------------------------------ handler bodies
SelectedButtons(bs) == SelectSeq(Indices(bs), LAMBDA i : bs[i].selected)

clear_selection(bs) == [i \in DOMAIN bs |-> [bs[i] EXCEPT !.selected = FALSE]]

\* ShortcutButton.change_color on live button i.
change_color(a, i, color) ==
    save_state_to_history(set_data(a, i, [a.buttons[i].data EXCEPT !.color = color]))

\* ShortcutsApp.remove_shortcut: self.buttons.remove(btn).
remove_shortcut(a, i) ==
    [a EXCEPT !.buttons = [k \in 1..(Len(a.buttons) - 1) |->
                              IF k < i THEN a.buttons[k] ELSE a.buttons[k + 1]]]

RECURSIVE remove_each(_, _)
\* for btn in selected_buttons: self.remove_shortcut(btn); sel holds the
\* indices of the buttons to remove, highest first.
remove_each(a, sel) ==
    IF sel = <<>> THEN a
    ELSE remove_each(remove_shortcut(a, Head(sel)), Tail(sel))

Reverse(seq) == [i \in 1..Len(seq) |-> seq[Len(seq) + 1 - i]]

RECURSIVE color_each(_, _, _)
\* for btn in selected_buttons: btn.change_color(color)
color_each(a, sel, color) ==
    IF sel = <<>> THEN a
    ELSE color_each(change_color(a, Head(sel), color), Tail(sel), color)

RECURSIVE rename_each(_, _, _, _, _)
\* for i, btn in enumerate(selected_buttons, 1): btn.data["name"] = ...
rename_each(a, sel, base, i, total) ==
    IF sel = <<>> THEN a
    ELSE LET b == Head(sel)
             nm == IF total = 1 THEN <<base, 0>> ELSE <<base, i>>
         IN  rename_each(set_data(a, b, [a.buttons[b].data EXCEPT !.name = nm]),
                         Tail(sel), base, i + 1, total)

RECURSIVE arrange_each(_, _, _)
\* auto_arrange_buttons: for i, btn in enumerate(self.buttons) (i from 0).
arrange_each(a, i, cols) ==
    IF i >= Len(a.buttons) THEN a
    ELSE LET row == i \div cols
             col == i % cols
             xy == snap_to_grid(col * 120, row * 50)
             placed == [a EXCEPT !.buttons[i + 1].wx = xy[1], !.buttons[i + 1].wy = xy[2]]
         IN  arrange_each(
                 set_data(placed, i + 1,
                          [a.buttons[i + 1].data EXCEPT !.x = xy[1], !.y = xy[2]]),
                 i + 1, cols)

\* ------------------------------------------------------------------ actions
LiveState == [buttons |-> [i \in DOMAIN buttons |-> to_dict(buttons[i])], config |-> config]

SelectedSet(bs) == {i \in DOMAIN bs : bs[i].selected}

\* The handler `name` ran with the inputs `input` and left the app in state a.
Handled(a, name, input) ==
    /\ steps' = steps + 1
    /\ arg' = input
    /\ buttons' = a.buttons
    /\ config' = a.config
    /\ history' = a.history
    /\ history_index' = a.history_index
    /\ aliased' = a.aliased
    /\ pushed' = a.pushed
    /\ npush' = a.npush
    /\ op' = name
    /\ pre' = [live |-> LiveState, history |-> history, history_index |-> history_index,
               pushed |-> pushed, op |-> op, nsel |-> Len(SelectedButtons(buttons)),
               sel |-> SelectedSet(buttons), gesture |-> gesture, marquee |-> marquee,
               fsys |-> fsys, refs |-> refs, editor |-> editor,
               before_undo |-> IF name = "redo" /\ op = "undo"
                               THEN [live |-> pre.live, history |-> pre.history,
                                     history_index |-> pre.history_index]
                               ELSE <<>>,
               before_action |-> IF name = "undo" /\ op # "init"
                                 THEN [live |-> pre.live, npush |-> npush]
                                 ELSE <<>>]

\* The handler `name` ran and left the app in state a.
Record(a, name) == Handled(a, name, <<>>)

Commit(a, name) == steps < MaxSteps /\ Record(a, name)
CommitArg(a, name, input) == steps < MaxSteps /\ Handled(a, name, input)

Idle == loaded /\ ~editor.open

SavedButton(x, y) == [name |-> <<"Shortcut", 1>>, files |-> <<>>, x |-> x, y |-> y, color |-> DefaultColor]
DefaultConfig == [font_size |-> DefaultFontSize, buttons_locked |-> FALSE]

\* No button is pressed; no button has a drag start or a pending click timer.
\* pointer and mod are the position and the modifier bit of the last event.
\* History fields: press is the pointer position at the press, travel the
\* largest displacement from it on either axis since, at_press the buttons
\* as they were at the press.
NoGesture ==
    [widget |-> "none", btn |-> 0, pointer |-> <<0, 0>>, mod |-> FALSE,
     offset |-> <<0, 0>>, dragging |-> FALSE, drag_moved |-> FALSE,
     multi_drag_start |-> [i \in 1..MaxButtons |-> <<>>], waitingaction |-> {},
     press |-> <<0, 0>>, travel |-> 0, at_press |-> <<>>]

\* SelectionManager.__init__.  History field: exceeded tells whether the
\* rectangle of the current marquee has been above the threshold.
NoMarquee ==
    [start |-> <<>>, rect |-> <<>>, is_dragging |-> FALSE, border |-> {},
     exceeded |-> FALSE]

\* No file entry is being followed.  History field: created is the path the
\* entry was made for.
\* No drop on the window is being processed.
NoWorker == [pc |-> "none", files |-> <<>>, all_files |-> <<>>]

\* Entries of a destination folder: nothing under the name, something that
\* was there before, a symlink made to src.
NoEntry == [kind |-> "none"]
OldEntry == [kind |-> "entry"]
LinkTo(src) == [kind |-> "link", src |-> src]

\* create_symlinks has not run.  History field: before is the chosen folder
\* as it was when the run began.
NoLinks ==
    [ran |-> FALSE, before |-> <<>>, dest |-> <<>>,
     created |-> <<>>, skipped |-> <<>>, failed |-> <<>>]

\* __init__ has returned and the main loop runs; DATA_FILE held a JSON object.
Started == [file |-> "object", content |-> <<>>, phase |-> "running"]

NoRefs == [entry |-> <<>>, returned |-> <<>>, created |-> <<>>, stored |-> <<>>]

\* The attributes ShortcutsApp.__init__ sets before and after it reads DATA_FILE.
Blank ==
    /\ buttons = <<>>
    /\ config = DefaultConfig
    /\ buttons_locked = FALSE
    /\ history = <<>>
    /\ history_index = -1
    /\ aliased = 0
    /\ editor = NoEditor
    /\ loaded = FALSE
    /\ pushed = <<>>
    /\ op = "init"
    /\ npush = 0
    /\ pre = <<>>
    /\ arg = <<>>
    /\ steps = 0
    /\ gesture = NoGesture
    /\ marquee = NoMarquee
    /\ refs = NoRefs
    /\ worker = NoWorker
    /\ links = NoLinks

\* The state after ShortcutsApp.__init__, before the saved buttons are loaded.
Constructed ==
    /\ Blank
    /\ startup = Started

Init ==
    /\ saved \in {<<>>, <<SavedButton(10, 10)>>, <<SavedButton(0, 0), SavedButton(120, 0)>>}
    /\ fsys = StartFiles
    /\ frame = <<DefaultW, DefaultH>>
    /\ Constructed

\* for d in self.data["buttons"]: self.create_shortcut_button(d); then one checkpoint.
load_buttons_from_data ==
    /\ startup.phase = "running"
    /\ ~loaded
    /\ loaded' = TRUE
    /\ Commit(save_state_to_history(
                 [App EXCEPT !.buttons = [k \in DOMAIN saved |->
                                             create_shortcut_button(config, saved[k], 0)]]),
              "load_buttons_from_data")
    /\ UNCHANGED <<buttons_locked, editor, saved, surroundings>>

undo_handler ==
    /\ Idle
    /\ Commit(undo(App), "undo")
    /\ UNCHANGED <<buttons_locked, editor, loaded, saved, surroundings>>

redo_handler ==
    /\ Idle
    /\ Commit(redo(App), "redo")
    /\ UNCHANGED <<buttons_locked, editor, loaded, saved, surroundings>>

\* Mutant: the name is set whatever the dialog returned.
rename_unchecked(b, input) ==
    /\ Idle
    /\ b \in DOMAIN buttons
    /\ CommitArg(save_state_to_history(
                     set_data(App, b, [buttons[b].data EXCEPT !.name = <<input, 0>>])),
                 "rename", [input |-> input])
    /\ UNCHANGED <<buttons_locked, editor, loaded, saved, surroundings>>

\* ShortcutButton.rename: the dialog returned `input`.
rename(b, input) ==
    /\ Idle
    /\ b \in DOMAIN buttons
    /\ CommitArg(IF input # ""
              THEN save_state_to_history(
                       set_data(App, b, [buttons[b].data EXCEPT !.name = <<input, 0>>]))
              ELSE App,
              "rename", [input |-> input])
    /\ UNCHANGED <<buttons_locked, editor, loaded, saved, surroundings>>

change_color_handler(b, color) ==
    /\ Idle
    /\ b \in DOMAIN buttons
    /\ Commit(change_color(App, b, color), "change_color")
    /\ UNCHANGED <<buttons_locked, editor, loaded, saved, surroundings>>

\* ShortcutButton.confirm_delete: the confirmation was answered `yes`.
confirm_delete(b, yes) ==
    /\ Idle
    /\ b \in DOMAIN buttons
    /\ CommitArg(IF yes THEN save_state_to_history(remove_shortcut(App, b)) ELSE App,
              "confirm_delete", [yes |-> yes])
    /\ UNCHANGED <<buttons_locked, editor, loaded, saved, surroundings>>

toggle_lock ==
    /\ Idle
    /\ buttons_locked' = ~buttons_locked
    /\ Commit([App EXCEPT !.config.buttons_locked = ~buttons_locked], "toggle_lock")
    /\ UNCHANGED <<editor, loaded, saved, surroundings>>

\* show_font_settings.apply
apply_font(fs) ==
    /\ Idle
    /\ Commit([App EXCEPT !.config.font_size = fs], "apply_font")
    /\ UNCHANGED <<buttons_locked, editor, loaded, saved, surroundings>>

ctrl_click(b) ==
    /\ Idle
    /\ b \in DOMAIN buttons
    /\ Commit([App EXCEPT !.buttons[b].selected = ~buttons[b].selected], "ctrl_click")
    /\ UNCHANGED <<buttons_locked, editor, loaded, saved, surroundings>>

clear_selection_key ==
    /\ Idle
    /\ Commit([App EXCEPT !.buttons = clear_selection(buttons)], "clear_selection_key")
    /\ UNCHANGED <<buttons_locked, editor, loaded, saved, surroundings>>

auto_arrange_buttons ==
    /\ Idle
    /\ Commit(IF buttons = <<>> THEN App
              ELSE save_state_to_history(arrange_each(App, 0, Max(1, FrameW \div 120))),
              "auto_arrange_buttons")
    /\ UNCHANGED <<buttons_locked, editor, loaded, saved, surroundings>>

\* batch_change_color followed by the choice of `color` in its modal window.
batch_change_color(color) ==
    /\ Idle
    /\ Commit(IF SelectedButtons(buttons) = <<>> THEN App
              ELSE save_state_to_history(color_each(App, SelectedButtons(buttons), color)),
              "batch_change_color")
    /\ UNCHANGED <<buttons_locked, editor, loaded, saved, surroundings>>

batch_rename(input) ==
    /\ Idle
    /\ CommitArg(IF SelectedButtons(buttons) # <<>> /\ input # ""
              THEN save_state_to_history(
                       rename_each(App, SelectedButtons(buttons), input, 1,
                                   Len(SelectedButtons(buttons))))
              ELSE App,
              "batch_rename", [input |-> input])
    /\ UNCHANGED <<buttons_locked, editor, loaded, saved, surroundings>>

delete_selected_buttons(yes) ==
    /\ Idle
    /\ CommitArg(IF SelectedButtons(buttons) # <<>> /\ yes
              THEN save_state_to_history(remove_each(App, Reverse(SelectedButtons(buttons))))
              ELSE App,
              "delete_selected_buttons", [yes |-> yes])
    /\ UNCHANGED <<buttons_locked, editor, loaded, saved, surroundings>>

\* _create_button_with_defaults(x, y): create, checkpoint, select the new
\* button alone and open its editor.
create_button_with_defaults(x, y) ==
    LET sz == get_button_size(config)
        cx == Max(8, Min(x, FrameW - sz[1] - 8))
        cy == Max(8, Min(y, FrameH - sz[2] - 8))
        data == [name |-> <<"Shortcut", Len(buttons) + 1>>, files |-> <<>>,
                 x |-> cx, y |-> cy, color |-> DefaultColor]
        new_btn == create_shortcut_button(config, data, 0)
        a == save_state_to_history([App EXCEPT !.buttons = Append(buttons, new_btn)])
        n == Len(a.buttons)
    IN  /\ Idle
        /\ Len(buttons) < MaxButtons
        /\ Commit([a EXCEPT !.buttons = [clear_selection(a.buttons) EXCEPT ![n].selected = TRUE]],
                  "create_button")
        /\ editor' = EditorWindow(n, a.buttons[n].data.files)
        /\ UNCHANGED <<buttons_locked, loaded, saved, surroundings>>

new_button_at_fixed_pos == create_button_with_defaults(10, 10)

\* ------------------------------------------------------------- file editor
\* The button's dicts after the editor has resolved the rows it holds: the
\* rows taken from the button are the button's own dicts.
write_through(a, ed) ==
    LET files == a.buttons[ed.btn].data.files
        held == {ed.src[i] : i \in DOMAIN ed.src}
        new == [k \in DOMAIN files |-> IF k \in held THEN resolved_entry(files[k]) ELSE files[k]]
    IN  IF new = files THEN a
        ELSE set_data(a, ed.btn, [a.buttons[ed.btn].data EXCEPT !.files = new])

\* EditorWindow.__init__: the editor works on a copy of the file list and
\* shows it (refresh_list).
open_editor(b) ==
    /\ Idle
    /\ b \in DOMAIN buttons
    /\ editor' = EditorWindow(b, buttons[b].data.files)
    /\ Commit(resolve_button_files(App, b), "open_editor")
    /\ UNCHANGED <<buttons_locked, loaded, saved, surroundings>>

RECURSIVE process_new(_, _, _, _)
\* The loop of EditorWindow._process_new; answers[i] is the reply to the
\* duplicate question for paths[i], when it is asked.
process_new(file_list, existing_paths, paths, answers) ==
    IF paths = <<>> THEN file_list
    ELSE LET p == normpath(Head(paths))
         IN  IF p \in existing_paths /\ ~Head(answers)
             THEN process_new(file_list, existing_paths, Tail(paths), Tail(answers))
             ELSE process_new(Append(file_list, get_file_info(p)),
                              existing_paths \cup {p}, Tail(paths), Tail(answers))

ResolvedPaths(files) == {resolve_file_path(files[i]) : i \in DOMAIN files}

\* EditorWindow.add_files / drop_files -> _process_new, then refresh_list.
editor_process_new(paths, answers) ==
    LET new_list == resolve_all(process_new(resolve_all(editor.file_list),
                                            ResolvedPaths(editor.file_list), paths, answers))
    IN  /\ loaded /\ editor.open
        /\ Len(new_list) <= MaxFiles
        /\ editor' = [editor EXCEPT
                         !.file_list = new_list,
                         !.src = [k \in DOMAIN new_list |-> IF k <= Len(@) THEN @[k] ELSE 0],
                         !.tree = ResolvedSeq(new_list)]
        /\ CommitArg(write_through(App, editor), "_process_new",
                     [paths |-> paths, answers |-> answers])
        /\ UNCHANGED <<buttons_locked, loaded, saved, surroundings>>

\* Mutant: the rows to keep are chosen by their cached path.
keep_by_cached_path(file_list, to_remove) ==
    SelectSeq(Indices(file_list), LAMBDA k : file_list[k].path \notin to_remove)

\* [f for f in self.file_list if resolve_file_path(f) not in to_remove]:
\* the numbers of the rows that stay.
rows_kept(file_list, to_remove) ==
    SelectSeq(Indices(file_list), LAMBDA k : resolve_file_path(file_list[k]) \notin to_remove)

\* EditorWindow.delete_selected: rows `sel` of the tree are selected and the
\* confirmation was answered `yes`.
editor_delete_selected(sel, yes) ==
    LET to_remove == {editor.tree[k] : k \in sel}
        keep == rows_kept(editor.file_list, to_remove)
        new_list == [k \in DOMAIN keep |-> resolved_entry(editor.file_list[keep[k]])]
        removing == sel # {} /\ yes
    IN  /\ loaded /\ editor.open
        /\ sel \subseteq DOMAIN editor.tree
        /\ editor' = IF removing
                      THEN [editor EXCEPT !.file_list = new_list,
                                          !.src = [k \in DOMAIN keep |-> editor.src[keep[k]]],
                                          !.tree = ResolvedSeq(new_list)]
                      ELSE editor
        /\ CommitArg(IF removing THEN write_through(App, editor) ELSE App, "delete_selected",
                     [sel |-> sel, yes |-> yes])
        /\ UNCHANGED <<buttons_locked, loaded, saved, surroundings>>

\* EditorWindow.on_close (Save & Close): commits the working copy; save_data
\* writes the state file; no checkpoint is requested.
editor_on_close ==
    /\ loaded /\ editor.open
    /\ Commit(set_data(App, editor.btn,
                       [buttons[editor.btn].data EXCEPT !.files = editor.file_list]),
              "on_close")
    /\ editor' = NoEditor
    /\ UNCHANGED <<buttons_locked, loaded, saved, surroundings>>

\* Mutant: Cancel commits the working copy.
cancel_keeping_edits ==
    /\ loaded /\ editor.open
    /\ Commit(set_data(App, editor.btn,
                       [buttons[editor.btn].data EXCEPT !.files = editor.file_list]),
              "cancel")
    /\ editor' = NoEditor
    /\ UNCHANGED <<buttons_locked, loaded, saved, surroundings>>

\* EditorWindow.cancel: the button gets back the list it had when the editor
\* opened (the button's own list is not touched while the editor is open).
editor_cancel ==
    /\ loaded /\ editor.open
    /\ Commit(App, "cancel")
    /\ editor' = NoEditor
    /\ UNCHANGED <<buttons_locked, loaded, saved, surroundings>>

\* os.path.basename
basename(path) == path[Len(path)]

\* The paths ShortcutButton.drop_files_on_button adds (lines 382-396): the
\* dropped items that exist and are no duplicates, without those that share
\* a basename with a duplicate when the question was answered no.
new_files_of_drop(items, existing_paths, yes) ==
    LET present == SelectSeq(items, LAMBDA f : f \in ExistingPaths)
        duplicates == {basename(f) : f \in {present[i] : i \in DOMAIN present} \cap existing_paths}
        fresh == SelectSeq(present, LAMBDA f : f \notin existing_paths)
    IN  IF duplicates # {} /\ ~yes
        THEN SelectSeq(fresh, LAMBDA f : basename(f) \notin duplicates)
        ELSE fresh

\* ShortcutButton.drop_files_on_button: `files` dropped on button b, the
\* duplicate question (if asked) answered `yes`.
drop_files_on_button(b, files, yes) ==
    LET a == resolve_button_files(App, b)
        items == [i \in DOMAIN files |-> normpath(files[i])]
        new_files == new_files_of_drop(items, ResolvedPaths(buttons[b].data.files), yes)
        entries == [i \in DOMAIN new_files |-> get_file_info(new_files[i])]
    IN  /\ Idle
        /\ b \in DOMAIN buttons
        /\ Len(buttons[b].data.files) + Len(new_files) <= MaxFiles
        /\ CommitArg(IF new_files # <<>>
                     THEN set_data(a, b, [a.buttons[b].data EXCEPT !.files = @ \o entries])
                     ELSE a,
                     "drop_files_on_button", [b |-> b, paths |-> files, yes |-> yes])
        /\ UNCHANGED <<buttons_locked, editor, loaded, saved, surroundings>>

\* ---------------------------------------------------------- tile gestures
\* The part of buttons_frame a button covers: <<x1, y1, x2, y2>> from
\* winfo_x(), winfo_y(), winfo_width(), winfo_height().
winfo_box(bs, cfg, i) ==
    <<bs[i].wx, bs[i].wy,
      bs[i].wx + get_button_size(cfg)[1], bs[i].wy + get_button_size(cfg)[2]>>

\* A point of buttons_frame that lies on no button (it is the canvas overlay's).
OnBackground(p) ==
    \A i \in DOMAIN buttons :
        LET box == winfo_box(buttons, config, i)
        IN  ~(box[1] <= p[1] /\ p[1] < box[3] /\ box[2] <= p[2] /\ p[2] < box[4])

\* self.app.clear_selection(); self.set_selected(True)
select_only(bs, b) == [i \in DOMAIN bs |-> [bs[i] EXCEPT !.selected = (i = b)]]

\* Mutant: the modifier press selects like a plain press.
select_replacing_all(bs, b) == [i \in DOMAIN bs |-> [bs[i] EXCEPT !.selected = (i = b)]]

\* self.set_selected(not self.selected)
toggle_selected(bs, b) == [bs EXCEPT ![b].selected = ~bs[b].selected]

\* An event of the gesture specifications was handled.
Event(a, name) == steps < MaxEvents /\ Record(a, name)

\* The pointer went down on button b, `off` from its top-left corner.
Pressed(b, off) ==
    [gesture EXCEPT !.widget = "button", !.btn = b,
                    !.pointer = <<buttons[b].wx + off[1], buttons[b].wy + off[2]>>,
                    !.press = <<buttons[b].wx + off[1], buttons[b].wy + off[2]>>,
                    !.travel = 0,
                    !.at_press = LiveState.buttons]

\* The pointer moved to p while the button is held down.
MovedTo(p) ==
    [gesture EXCEPT !.pointer = p,
                    !.travel = Max(@, Max(Max(p[1] - gesture.press[1], gesture.press[1] - p[1]),
                                          Max(p[2] - gesture.press[2], gesture.press[2] - p[2])))]

\* ShortcutButton.click_press: <Button-1> on button b at offset `off` inside
\* it; `mod` tells whether event.state carries the Control or Mod1 bit.
click_press(b, off, mod) ==
    /\ Idle
    /\ gesture.widget = "none"
    /\ b \in DOMAIN buttons
    /\ gesture' = [Pressed(b, off) EXCEPT !.mod = mod, !.offset = off, !.drag_moved = FALSE]
    /\ Event(IF ~mod /\ ~buttons[b].selected
             THEN [App EXCEPT !.buttons = select_only(buttons, b)]
             ELSE App,
             "click_press")
    /\ UNCHANGED <<buttons_locked, editor, loaded, saved, marquee, fsys, refs, frame, worker, startup, links>>

\* ShortcutButton.ctrl_click: the <Control-Button-1> (<Command-Button-1>)
\* binding, which takes the press instead of click_press.
ctrl_click_press(b, off) ==
    /\ Idle
    /\ gesture.widget = "none"
    /\ b \in DOMAIN buttons
    /\ gesture' = [Pressed(b, off) EXCEPT !.mod = TRUE, !.offset = off]
    /\ Event([App EXCEPT !.buttons = toggle_selected(buttons, b)], "ctrl_click")
    /\ UNCHANGED <<buttons_locked, editor, loaded, saved, marquee, fsys, refs, frame, worker, startup, links>>

\* max(0, min(new_x, master.winfo_width() - btn.winfo_width())), both axes.
drag_clamp(xy, cfg) ==
    <<Max(0, Min(xy[1], FrameW - get_button_size(cfg)[1])),
      Max(0, Min(xy[2], FrameH - get_button_size(cfg)[2]))>>

\* do_drag, lines 483-488: where a selected button that started the drag at
\* `start` is placed when the primary button has moved by `delta`.
drag_place(start, delta, cfg) ==
    drag_clamp(snap_to_grid(start[1] + delta[1], start[2] + delta[2]), cfg)

\* Mutant: every selected button records the origin as its drag start.
drag_starts_at_origin(bs, old) ==
    [i \in 1..MaxButtons |->
        IF i \in DOMAIN bs /\ bs[i].selected THEN <<0, 0>> ELSE old[i]]

\* The drag starts recorded by the first motion event of a gesture.
drag_starts(bs, old) ==
    [i \in 1..MaxButtons |->
        IF i \in DOMAIN bs /\ bs[i].selected THEN <<bs[i].wx, bs[i].wy>> ELSE old[i]]

\* Mutant: the lock is not looked at.
drag_never_refused == FALSE

\* do_drag, lines 449-450: if self.app.buttons_locked: return
drag_refused == buttons_locked

\* Mutant: the event's coordinates are taken relative to where the button
\* was when it was pressed.
event_from_press(p, b) == <<p[1] - gesture.at_press[b].x, p[2] - gesture.at_press[b].y>>

\* event.x, event.y of a motion event with the pointer at p: relative to the
\* top-left corner of button b, where it is placed now.
event_xy(p, b) == <<p[1] - buttons[b].wx, p[2] - buttons[b].wy>>

\* ShortcutButton.do_drag: <B1-Motion> with the pointer at p, delivered to the
\* pressed button.
do_drag(p) ==
    LET b == gesture.btn
        event == event_xy(p, b)
        first == ~gesture.dragging
        bs1 == IF first /\ ~buttons[b].selected THEN select_only(buttons, b) ELSE buttons
        starts == IF first THEN drag_starts(bs1, gesture.multi_drag_start)
                  ELSE gesture.multi_drag_start
        new_x == buttons[b].wx + event[1] - gesture.offset[1]
        new_y == buttons[b].wy + event[2] - gesture.offset[2]
        moved == \/ new_x - buttons[b].wx > 2 \/ buttons[b].wx - new_x > 2
                 \/ new_y - buttons[b].wy > 2 \/ buttons[b].wy - new_y > 2
        new == drag_clamp(snap_to_grid(new_x, new_y), config)
        delta == <<new[1] - starts[b][1], new[2] - starts[b][2]>>
        bs2 == IF starts[b] = <<>> THEN bs1
               ELSE [i \in DOMAIN bs1 |->
                        IF bs1[i].selected /\ starts[i] # <<>>
                        THEN [bs1[i] EXCEPT !.wx = drag_place(starts[i], delta, config)[1],
                                            !.wy = drag_place(starts[i], delta, config)[2]]
                        ELSE bs1[i]]
    IN  /\ loaded /\ ~editor.open
        /\ gesture.widget = "button"
        /\ IF drag_refused
           THEN /\ gesture' = MovedTo(p)
                /\ Event(App, "do_drag")
           ELSE /\ gesture' = [MovedTo(p) EXCEPT
                                              !.dragging = TRUE,
                                              !.drag_moved = (~first /\ @) \/ moved,
                                              !.multi_drag_start = starts]
                /\ Event([App EXCEPT !.buttons = bs2], "do_drag")
        /\ UNCHANGED <<buttons_locked, editor, loaded, saved, marquee, fsys, refs, frame, worker, startup, links>>

\* click_release, lines 498-507: the selected buttons' placed positions are
\* written into their data, then one checkpoint is pushed.
commit_drag(a) ==
    save_state_to_history(
        alias_sync([a EXCEPT !.buttons =
            [i \in DOMAIN a.buttons |->
                IF a.buttons[i].selected
                THEN [a.buttons[i] EXCEPT !.data.x = a.buttons[i].wx,
                                          !.data.y = a.buttons[i].wy]
                ELSE a.buttons[i]]]))

\* ShortcutButton.click_release: <ButtonRelease-1> on the pressed button.
click_release ==
    LET b == gesture.btn
        was_drag == gesture.drag_moved
    IN  /\ loaded /\ ~editor.open
        /\ gesture.widget = "button"
        /\ IF gesture.dragging
           THEN IF was_drag
                THEN /\ gesture' = [gesture EXCEPT
                            !.widget = "none", !.btn = 0, !.dragging = FALSE, !.drag_moved = FALSE,
                            !.multi_drag_start =
                                [i \in 1..MaxButtons |->
                                    IF i \in DOMAIN buttons /\ buttons[i].selected
                                    THEN <<>> ELSE @[i]]]
                     /\ Event(commit_drag(App), "click_release")
                ELSE /\ gesture' = [gesture EXCEPT
                            !.widget = "none", !.btn = 0, !.dragging = FALSE, !.drag_moved = FALSE,
                            !.multi_drag_start = [i \in 1..MaxButtons |-> <<>>]]
                     /\ Event([App EXCEPT !.buttons = select_only(buttons, b)],
                              "click_release")
           ELSE /\ gesture' = [gesture EXCEPT !.widget = "none", !.btn = 0,
                                              !.waitingaction = @ \cup {b}]
                /\ Event(App, "click_release")
        /\ UNCHANGED <<buttons_locked, editor, loaded, saved, marquee, fsys, refs, frame, worker, startup, links>>

\* ShortcutButton.mouse_action, 250 ms after a release that ended no drag:
\* the click opens the button's file editor.
mouse_action(b) ==
    /\ Idle
    /\ gesture.widget = "none"
    /\ b \in gesture.waitingaction
    /\ b \in DOMAIN buttons
    /\ gesture' = [gesture EXCEPT !.waitingaction = @ \ {b}]
    /\ editor' = EditorWindow(b, buttons[b].data.files)
    /\ Event(resolve_button_files(App, b), "mouse_action")
    /\ UNCHANGED <<buttons_locked, loaded, saved, marquee, fsys, refs, frame, worker, startup, links>>

\* ------------------------------------------------------- selection manager
\* x1, x2 = sorted(...); y1, y2 = sorted(...)
sorted_rect(r) == <<Min(r[1], r[3]), Min(r[2], r[4]), Max(r[1], r[3]), Max(r[2], r[4])>>

\* Mutant: one axis above 10 units is enough.
exceeds_in_one_axis(r) == r[3] - r[1] > 10 \/ r[4] - r[2] > 10

\* abs(x2 - x1) > 10 and abs(y2 - y1) > 10, on a sorted rectangle.
exceeds_threshold(r) == r[3] - r[1] > 10 /\ r[4] - r[2] > 10

\* Mutant: touching edges count as an overlap.
touches(r, box) == r[1] <= box[3] /\ r[3] >= box[1] /\ r[2] <= box[4] /\ r[4] >= box[2]

\* x1 < btn_x2 and x2 > btn_x and y1 < btn_y2 and y2 > btn_y
overlaps(r, box) == r[1] < box[3] /\ r[3] > box[1] /\ r[2] < box[4] /\ r[4] > box[2]

\* Mutant: the buttons in the rectangle replace the selection.
select_replacing(bs, cfg, r) ==
    [i \in DOMAIN bs |-> [bs[i] EXCEPT !.selected = overlaps(r, winfo_box(bs, cfg, i))]]

\* on_release, lines 824-834: btn.set_selected(True) for the overlapped buttons.
select_overlapped(bs, cfg, r) ==
    [i \in DOMAIN bs |->
        IF overlaps(r, winfo_box(bs, cfg, i)) THEN [bs[i] EXCEPT !.selected = TRUE] ELSE bs[i]]

\* SelectionManager.on_start: <ButtonPress-1> on the canvas overlay at p.
on_start(p) ==
    /\ Idle
    /\ gesture.widget = "none"
    /\ OnBackground(p)
    /\ marquee' = [marquee EXCEPT !.start = p, !.is_dragging = TRUE, !.exceeded = FALSE]
    /\ gesture' = [gesture EXCEPT !.widget = "canvas", !.pointer = p, !.press = p,
                                  !.travel = 0]
    /\ Event(App, "on_start")
    /\ UNCHANGED <<buttons_locked, editor, loaded, saved, fsys, refs, frame, worker, startup, links>>

\* SelectionManager.update_selection_preview: the borders after a move to p
\* of the rectangle that starts at `start`.
update_selection_preview(m, bs, cfg, p) ==
    LET r == sorted_rect(<<m.start[1], m.start[2], p[1], p[2]>>)
    IN  IF m.start[1] = 0 \/ m.start[2] = 0 \/ m.rect = <<>> \/ ~exceeds_threshold(r)
        THEN m.border
        ELSE {i \in DOMAIN bs :
                 IF bs[i].selected THEN i \in m.border
                 ELSE overlaps(r, winfo_box(bs, cfg, i))}

\* SelectionManager.on_drag: <B1-Motion> on the canvas overlay.
on_drag(p) ==
    LET m == [marquee EXCEPT !.rect = <<marquee.start[1], marquee.start[2], p[1], p[2]>>]
    IN  /\ loaded /\ ~editor.open
        /\ gesture.widget = "canvas"
        /\ marquee' = IF marquee.is_dragging
                      THEN [m EXCEPT !.border = update_selection_preview(m, buttons, config, p),
                                     !.exceeded = @ \/ exceeds_threshold(sorted_rect(m.rect))]
                      ELSE marquee
        /\ gesture' = MovedTo(p)
        /\ Event(App, "on_drag")
        /\ UNCHANGED <<buttons_locked, editor, loaded, saved, fsys, refs, frame, worker, startup, links>>

\* SelectionManager.on_release: <ButtonRelease-1> on the canvas overlay; `mod`
\* tells whether event.state carries the Control or Mod1 bit.
on_release(mod) ==
    LET r == sorted_rect(marquee.rect)
        bs == IF marquee.rect = <<>>
              THEN IF mod THEN buttons ELSE clear_selection(buttons)
              ELSE IF exceeds_threshold(r)
                   THEN select_overlapped(buttons, config, r)
                   ELSE buttons
    IN  /\ loaded /\ ~editor.open
        /\ gesture.widget = "canvas"
        /\ gesture' = [gesture EXCEPT !.widget = "none", !.mod = mod]
        /\ IF ~marquee.is_dragging
           THEN /\ marquee' = marquee
                /\ Event(App, "on_release")
           ELSE /\ marquee' = [marquee EXCEPT !.start = <<>>, !.rect = <<>>,
                                              !.is_dragging = FALSE,
                                              !.border = @ \cap SelectedSet(bs)]
                /\ Event([App EXCEPT !.buttons = bs], "on_release")
        /\ UNCHANGED <<buttons_locked, editor, loaded, saved, fsys, refs, frame, worker, startup, links>>

\* SelectionManager.cancel_selection
cancel_selection(m, bs) ==
    [m EXCEPT !.start = <<>>, !.rect = <<>>, !.is_dragging = FALSE,
              !.border = @ \cap SelectedSet(bs)]

\* The <Escape> key.  The canvas overlay binds it to cancel_selection, the
\* root window to clear_selection_key.  With the keyboard focus on the canvas
\* (canvas_focus) both handlers run, the canvas's first; with the focus
\* elsewhere in the window only the root's runs.
escape_key(canvas_focus) ==
    /\ Idle
    /\ marquee' = IF canvas_focus THEN cancel_selection(marquee, buttons) ELSE marquee
    /\ steps < MaxEvents
    /\ Handled([App EXCEPT !.buttons = clear_selection(buttons)], "escape_key",
               [canvas_focus |-> canvas_focus])
    /\ UNCHANGED <<buttons_locked, editor, loaded, saved, gesture, fsys, refs, frame, worker, startup, links>>

\* ---------------------------------------------------------- specification
\* Batches of paths offered to the editor or dropped on a button.
DropInputs == {<<p>> : p \in {<<"d1", "f">>}}

Next ==
    \/ load_buttons_from_data
    \/ undo_handler
    \/ redo_handler
    \/ \E b \in 1..MaxButtons, input \in NameInputs : rename(b, input)
    \/ \E b \in 1..MaxButtons, color \in ColorInputs : change_color_handler(b, color)
    \/ \E b \in 1..MaxButtons, yes \in BOOLEAN : confirm_delete(b, yes)
    \/ toggle_lock
    \/ \E fs \in FontSizes : apply_font(fs)
    \/ \E b \in 1..MaxButtons : ctrl_click(b)
    \/ clear_selection_key
    \/ auto_arrange_buttons
    \/ \E color \in ColorInputs : batch_change_color(color)
    \/ \E input \in NameInputs : batch_rename(input)
    \/ \E yes \in BOOLEAN : delete_selected_buttons(yes)
    \/ new_button_at_fixed_pos
    \/ \E b \in 1..MaxButtons : open_editor(b)
    \/ \E paths \in DropInputs, yes \in BOOLEAN : editor_process_new(paths, <<yes>>)
    \/ \E sel \in SUBSET (1..MaxFiles), yes \in BOOLEAN : editor_delete_selected(sel, yes)
    \/ editor_on_close
    \/ editor_cancel
    \/ \E b \in 1..MaxButtons, files \in DropInputs, yes \in BOOLEAN : drop_files_on_button(b, files, yes)

Spec == Init /\ [][Next]_vars

\* ------------------------------------------- the pointer-gesture specification
\* Where a button is pressed, relative to its top-left corner.
PressOffsets == {<<4, 3>>}
\* Pointer displacements from the press point: within the 2-unit threshold,
\* and beyond it.
Moves == {<<1, 0>>, <<4, 0>>, <<23, 4>>}
\* Points of the background where a marquee starts, and where it is dragged to.
MarqueeStarts == {<<70, 70>>, <<100, 20>>}
MarqueeEnds == {<<10, 10>>, <<75, 75>>, <<96, 29>>, <<10, 25>>}

GestureInit ==
    /\ saved \in {<<SavedButton(10, 10), SavedButton(50, 10)>>,
                  <<SavedButton(0, 0), SavedButton(120, 0)>>}
    /\ fsys = StartFiles
    /\ frame = <<DefaultW, DefaultH>>
    /\ Constructed

\* The pointer position after the displacement d from the press point.
Moved(d) ==
    <<gesture.press[1] + d[1], gesture.press[2] + d[2]>>

GestureNext ==
    \/ load_buttons_from_data
    \/ \E b \in 1..MaxButtons, off \in PressOffsets, mod \in BOOLEAN : click_press(b, off, mod)
    \/ \E b \in 1..MaxButtons, off \in PressOffsets : ctrl_click_press(b, off)
    \/ \E d \in Moves : do_drag(Moved(d))
    \/ click_release
    \/ \E b \in 1..MaxButtons : mouse_action(b)
    \/ editor_cancel
    \/ \E p \in MarqueeStarts : on_start(p)
    \/ \E p \in MarqueeEnds : on_drag(p)
    \/ \E mod \in BOOLEAN : on_release(mod)
    \/ \E canvas_focus \in BOOLEAN : escape_key(canvas_focus)

GestureSpec == GestureInit /\ [][GestureNext]_vars

\* --------------------------------------------------- the marquee specification
\* Points of the background where a marquee starts: those of the gesture
\* specification and one in the leftmost pixel column of the canvas, where
\* event.x is 0.
MarqueeAnchors == MarqueeStarts \cup {<<0, 40>>}

MarqueeNext ==
    \/ load_buttons_from_data
    \/ \E b \in 1..MaxButtons : gesture.widget = "none" /\ ctrl_click(b)
    \/ \E p \in MarqueeAnchors : on_start(p)
    \/ \E p \in MarqueeEnds : on_drag(p)
    \/ \E mod \in BOOLEAN : on_release(mod)
    \/ \E canvas_focus \in BOOLEAN : escape_key(canvas_focus)

MarqueeSpec == GestureInit /\ [][MarqueeNext]_vars

\* ------------------------------------------------ the layout specification
\* ShortcutsApp.create_shortcut_after_processing: the callback of a drop on
\* the window, with the name dialog answered `shortcut_name` ("": cancelled).
\* all_files are the dropped paths that exist (process_dropped_files).
shortcut_after_processing(a, all_files, shortcut_name) ==
    LET cols == Max(1, FrameW \div 120)
        existing_count == Len(a.buttons)
        xy == snap_to_grid((existing_count % cols) * 120, (existing_count \div cols) * 50)
        data == [name |-> <<shortcut_name, 0>>,
                 files |-> [i \in DOMAIN all_files |-> get_file_info(all_files[i])],
                 x |-> xy[1], y |-> xy[2], color |-> DefaultColor]
    IN  IF shortcut_name = "" THEN a
        ELSE save_state_to_history(
                 [a EXCEPT !.buttons = Append(a.buttons, create_shortcut_button(a.config, data, 0))])

\* process_dropped_files: the dropped paths that are files or folders.
process_dropped_files(files) ==
    SelectSeq([i \in DOMAIN files |-> normpath(files[i])], LAMBDA f : f \in ExistingPaths)

\* A drop on the window whose worker and callback run with nothing in
\* between.
create_shortcut_after_processing(files, shortcut_name) ==
    /\ Idle
    /\ Len(buttons) < MaxButtons
    /\ CommitArg(shortcut_after_processing(App, process_dropped_files(files), shortcut_name),
                 "create_shortcut_after_processing", [input |-> shortcut_name])
    /\ UNCHANGED <<buttons_locked, editor, loaded, saved, surroundings>>

\* A window the user has made small: buttons_frame is 200 wide and 60 high,
\* more than one button (88 x 21).
SmallFrame == <<200, 60>>

LayoutInit ==
    /\ saved \in {<<>>, <<SavedButton(10, 10)>>, <<SavedButton(0, 0), SavedButton(120, 0)>>}
    /\ fsys = StartFiles
    /\ frame \in {<<DefaultW, DefaultH>>, SmallFrame}
    /\ Constructed

\* No mouse button is held down.  The toolbar, menu, key and drop handlers of
\* this specification run between pointer gestures, not in the middle of one.
PointerFree == gesture.widget = "none"

LayoutNext ==
    \/ load_buttons_from_data
    \/ PointerFree /\ new_button_at_fixed_pos
    \/ PointerFree /\ editor_cancel
    \/ \E files \in DropInputs, name \in NameInputs :
          PointerFree /\ create_shortcut_after_processing(files, name)
    \/ PointerFree /\ auto_arrange_buttons
    \/ PointerFree /\ undo_handler
    \/ PointerFree /\ redo_handler
    \/ \E b \in 1..MaxButtons, off \in PressOffsets : click_press(b, off, FALSE)
    \/ \E d \in Moves : do_drag(Moved(d))
    \/ click_release

LayoutSpec == LayoutInit /\ [][LayoutNext]_vars

\* ------------------------------------------------ the group-drag specification
\* Two saved buttons, the window at its default size or made small, and the
\* pointer handlers that select buttons and drag them.
GroupDragInit ==
    /\ saved \in {<<SavedButton(10, 10), SavedButton(50, 10)>>,
                  <<SavedButton(10, 10), SavedButton(100, 10)>>,
                  <<SavedButton(0, 0), SavedButton(120, 0)>>}
    /\ fsys = StartFiles
    /\ frame \in {<<DefaultW, DefaultH>>, SmallFrame}
    /\ Constructed

GroupDragNext ==
    \/ load_buttons_from_data
    \/ \E b \in 1..MaxButtons, off \in PressOffsets, mod \in BOOLEAN : click_press(b, off, mod)
    \/ \E b \in 1..MaxButtons, off \in PressOffsets : ctrl_click_press(b, off)
    \/ \E d \in Moves : do_drag(Moved(d))
    \/ click_release

GroupDragSpec == GroupDragInit /\ [][GroupDragNext]_vars

\* ---------------------------------------------- the locked-drag specification
\* The pointer handlers of a button together with the lock button of the
\* toolbar, which is clicked between gestures.
LockNext ==
    \/ load_buttons_from_data
    \/ PointerFree /\ toggle_lock
    \/ \E b \in 1..MaxButtons, off \in PressOffsets, mod \in BOOLEAN : click_press(b, off, mod)
    \/ \E d \in Moves : do_drag(Moved(d))
    \/ click_release
    \/ \E b \in 1..MaxButtons : mouse_action(b)
    \/ editor_cancel

LockSpec == GestureInit /\ [][LockNext]_vars

\* ------------------------------------------ the file-tracking specification
\* A step of the file-tracking specification was taken.
FileEvent(a, name) == steps < MaxFileEvents /\ Record(a, name)

\* A tracked entry is made for path p (get_file_info).
track(p) ==
    /\ refs.entry = <<>>
    /\ refs' = [entry |-> get_file_info(p), returned |-> <<>>, created |-> p, stored |-> <<>>]
    /\ FileEvent(App, "get_file_info")
    /\ UNCHANGED <<buttons_locked, editor, loaded, saved, gesture, marquee, fsys, frame, worker, startup, links>>

\* An entry f of a persisted file list goes through normalize_file_list.
load_entry(f) ==
    /\ refs.entry = <<>>
    /\ refs' = [entry |-> normalize_file_list(<<f>>)[1], returned |-> <<>>,
                created |-> <<>>, stored |-> f]
    /\ FileEvent(App, "normalize_file_list")
    /\ UNCHANGED <<buttons_locked, editor, loaded, saved, gesture, marquee, fsys, frame, worker, startup, links>>

\* An entry f of a persisted file list is held as it is, for a caller that
\* resolves it without normalize_file_list.
keep_entry(f) ==
    /\ refs.entry = <<>>
    /\ refs' = [entry |-> f, returned |-> <<>>, created |-> <<>>, stored |-> f]
    /\ FileEvent(App, "keep_entry")
    /\ UNCHANGED <<buttons_locked, editor, loaded, saved, gesture, marquee, fsys, frame, worker, startup, links>>

\* The entry is resolved (resolve_file_path).
resolve ==
    /\ refs.entry # <<>>
    /\ refs' = [refs EXCEPT !.entry = resolved_entry(refs.entry),
                            !.returned = resolve_file_path(refs.entry)]
    /\ FileEvent(App, "resolve_file_path")
    /\ UNCHANGED <<buttons_locked, editor, loaded, saved, gesture, marquee, fsys, frame, worker, startup, links>>

\* Outside the program: the file at p is renamed or moved to the free path q
\* and keeps its identity.
rename_file(p, q) ==
    /\ fsys[p] # 0 /\ fsys[q] = 0
    /\ fsys' = [fsys EXCEPT ![p] = 0, ![q] = fsys[p]]
    /\ FileEvent(App, "rename_file")
    /\ UNCHANGED <<buttons_locked, editor, loaded, saved, gesture, marquee, refs, frame, worker, startup, links>>

\* Outside the program: the file at p is deleted.
delete_file(p) ==
    /\ fsys[p] # 0
    /\ fsys' = [fsys EXCEPT ![p] = 0]
    /\ FileEvent(App, "delete_file")
    /\ UNCHANGED <<buttons_locked, editor, loaded, saved, gesture, marquee, refs, frame, worker, startup, links>>

\* Outside the program: a link to nothing is created at the free path p.
create_dangling(p) ==
    /\ fsys[p] = 0
    /\ fsys' = [fsys EXCEPT ![p] = -1]
    /\ FileEvent(App, "create_dangling")
    /\ UNCHANGED <<buttons_locked, editor, loaded, saved, gesture, marquee, refs, frame, worker, startup, links>>

\* Outside the program: a file is created at the free path p; it gets an
\* identity that no existing file has (a new one, or one a deleted file had).
create_file(p, inode) ==
    /\ fsys[p] = 0
    /\ \A q \in Paths : fsys[q] # inode
    /\ fsys' = [fsys EXCEPT ![p] = inode]
    /\ FileEvent(App, "create_file")
    /\ UNCHANGED <<buttons_locked, editor, loaded, saved, gesture, marquee, refs, frame, worker, startup, links>>

\* The identity numbers files can have.
Inodes == {11, 12, 13}

\* File entries as a state file can hold them: bare strings of older saves,
\* and dicts, among them one without identity and one without parent.
SavedEntries ==
    {[str |-> <<"d1", "f">>], [str |-> <<"d2", ".", "f">>],
     [path |-> <<"d1", "f">>, inode |-> 11, parent |-> "d1"],
     [path |-> <<"d1", "f">>, inode |-> 0, parent |-> "d1"],
     [path |-> <<"d1", "f">>, inode |-> 11, parent |-> ""]}

FilesInit ==
    /\ saved = <<>>
    /\ fsys = StartFiles
    /\ frame = <<DefaultW, DefaultH>>
    /\ Constructed

FilesNext ==
    \/ \E p \in RawPaths : track(p)
    \/ \E f \in SavedEntries : load_entry(f)
    \/ \E f \in SavedEntries : keep_entry(f)
    \/ resolve
    \/ \E p, q \in Paths : rename_file(p, q)
    \/ \E p \in Paths : delete_file(p)
    \/ \E p \in Paths : create_dangling(p)
    \/ \E p \in Paths, inode \in Inodes : create_file(p, inode)

FilesSpec == FilesInit /\ [][FilesNext]_vars

\* ------------------------------------------------------------------ claims
Cursor == history_index + 1
Ran == op # "init"
BatchOps == {"batch_change_color", "batch_rename", "delete_selected_buttons",
             "auto_arrange_buttons"}

\* C1: every entry held in history is still equal to the snapshot that was
\* pushed, whatever push / undo / redo and live mutations happened since.
C1_EntriesNeverChange == \A i \in DOMAIN history : history[i] = pushed[i]

\* C2: in every reachable state -1 <= cursor <= len(entries) - 1 and
\* len(entries) <= capacity.
C2_CursorAndCapacity ==
    /\ -1 <= history_index
    /\ history_index <= Len(history) - 1
    /\ Len(history) <= max_history

\* The history is full and undo has moved the cursor back to its first entry.
C2_Witness ==
    /\ op = "undo"
    /\ Len(history) = max_history
    /\ history_index = 0
    /\ pre.history_index = 1

\* C3: with cursor > 0, undo() immediately followed by redo() leaves the
\* live shortcuts and configuration equal to what they were before the pair
\* and leaves entries and cursor unchanged.
C3_UndoRedoRoundTrip ==
    (op = "redo" /\ pre.op = "undo" /\ pre.before_undo.history_index > 0) =>
        /\ LiveState = pre.before_undo.live
        /\ history = pre.before_undo.history
        /\ history_index = pre.before_undo.history_index

\* C4: a push made while cursor < len(entries) - 1 leaves entries equal to the
\* previously pushed snapshots at indices 0..cursor followed by the new
\* snapshot, the cursor at the new last index, and nothing to redo.
C4_BranchDiscard ==
    (Ran /\ npush = 1 /\ pre.history_index < Len(pre.history) - 1) =>
        /\ history = Append(SubSeq(pre.pushed, 1, pre.history_index + 1), LiveState)
        /\ history_index = Len(history) - 1
        /\ redo(App) = App

\* C5: a push that would make len(entries) exceed capacity drops exactly the
\* oldest entry and decrements the cursor so that it designates the newly
\* pushed entry; afterwards len(entries) = capacity and the remaining entries
\* keep their order.  (Entries are identified by the snapshots pushed; the
\* value of an entry whose dicts no live button holds is compared too.)
C5_Overflow ==
    (Ran /\ npush = 1 /\ Len(pre.history) = max_history
         /\ pre.history_index = max_history - 1) =>
        /\ Len(history) = max_history
        /\ history_index = max_history - 1
        /\ history[Cursor] = LiveState
        /\ pushed = Append(Tail(pre.pushed), LiveState)
        /\ \A i \in 1..(max_history - 1) : i # aliased => history[i] = pre.history[i + 1]

\* One checkpoint was pushed onto a full history.
C5_Witness ==
    /\ Ran /\ npush = 1
    /\ Len(pre.history) = max_history
    /\ pre.history_index = max_history - 1
    /\ pre.history[1] # pre.history[2]

\* C6: after every push, cursor = len(entries) - 1 and the last entry equals
\* the live state that was snapshotted; the history starts empty and a push
\* with the cursor at the end and room left adds exactly one entry, so N
\* sequential pushes (N <= capacity) give cursor = N - 1 and len(entries) = N.
C6_PushAppends ==
    /\ ~Ran => history = <<>> /\ history_index = -1
    /\ (Ran /\ npush >= 1) =>
        /\ history_index = Len(history) - 1
        /\ history[Len(history)] = LiveState
        /\ (pre.history_index = Len(pre.history) - 1
              /\ Len(pre.history) + npush <= max_history) =>
               /\ Len(history) = Len(pre.history) + npush
               /\ history_index = pre.history_index + npush

\* A push made after an undo (a redo branch existed), and the history has
\* been filled to capacity by sequential pushes.
C6_Witness ==
    /\ Ran /\ npush = 1
    /\ pre.history_index < Len(pre.history) - 1
    /\ Len(pre.history) = max_history

\* C7: undo() with cursor <= 0 changes nothing; otherwise it decrements the
\* cursor by exactly one, leaves entries unchanged, and afterwards the live
\* shortcuts and configuration equal entries[cursor].
C7_Undo ==
    op = "undo" =>
        IF pre.history_index <= 0
        THEN history = pre.history /\ history_index = pre.history_index
             /\ LiveState = pre.live
        ELSE history_index = pre.history_index - 1 /\ history = pre.history
             /\ LiveState = history[Cursor]

\* C8: redo() with cursor >= len(entries) - 1 changes nothing; otherwise it
\* increments the cursor by exactly one, leaves entries unchanged, and
\* afterwards the live shortcuts and configuration equal entries[cursor].
C8_Redo ==
    op = "redo" =>
        IF pre.history_index >= Len(pre.history) - 1
        THEN history = pre.history /\ history_index = pre.history_index
             /\ LiveState = pre.live
        ELSE history_index = pre.history_index + 1 /\ history = pre.history
             /\ LiveState = history[Cursor]

\* C9: committing a change to a shortcut's file list (editor Save & Close, or
\* files dropped on a tile) pushes exactly one checkpoint.
C9_FileEditCheckpoint ==
    (op \in {"on_close", "drop_files_on_button"} /\ LiveState # pre.live) => npush = 1

\* C10: a batch operation performed on n >= 2 selected shortcuts pushes
\* exactly one checkpoint.
C10_BatchOneCheckpoint ==
    (op \in BatchOps /\ pre.nsel >= 2 /\ npush >= 1) => npush = 1


\* ------------------------------------------------------ claims on gestures
\* The 2-unit movement threshold of a tile gesture.
DragThreshold == 2
\* The largest displacement of the pointer from the press point, on either
\* axis, during the gesture that the last release ended.
Travel == pre.gesture.travel
Positions(bs) == [i \in DOMAIN bs |-> <<bs[i].x, bs[i].y>>]

\* C11: a completed drag (pointer movement above the threshold) writes every
\* selected tile's final position into its shortcut data at release and
\* pushes exactly one checkpoint at release; no move event pushes a
\* checkpoint.
C11_DragCommit ==
    /\ op = "do_drag" => npush = 0
    /\ (op = "click_release" /\ Travel > DragThreshold) =>
        /\ npush = 1
        /\ \A i \in DOMAIN buttons :
               buttons[i].selected =>
                   buttons[i].data.x = buttons[i].wx /\ buttons[i].data.y = buttons[i].wy

\* C12: a press-move-release on a tile whose displacement never reaches the
\* threshold leaves every tile's position unchanged, pushes no checkpoint
\* and makes the selection exactly that tile.
C12_ClickNotDrag ==
    (op = "click_release" /\ pre.gesture.dragging /\ Travel < DragThreshold) =>
        /\ Positions(LiveState.buttons) = Positions(pre.gesture.at_press)
        /\ npush = 0
        /\ SelectedSet(buttons) = {pre.gesture.btn}

\* snap of the claim: each axis to the nearest multiple of the grid size.
NearestMultiple(n) == ((2 * n + grid_size) \div (2 * grid_size)) * grid_size
\* clamp of the claim: each axis to [0, canvas size - tile size].
ClampToCanvas(xy) ==
    <<Max(0, Min(xy[1], FrameW - get_button_size(config)[1])),
      Max(0, Min(xy[2], FrameH - get_button_size(config)[2]))>>

\* C13: on every drag move each selected shortcut is placed at
\* clamp(snap(dragStart + delta)), delta = U - primaryDragStart, U the
\* pointer minus the initial offset, for every integer drag-start position.
C13_GroupDragFormula ==
    (op = "do_drag" /\ gesture.dragging) =>
        LET U == <<gesture.pointer[1] - gesture.offset[1], gesture.pointer[2] - gesture.offset[2]>>
            primary == gesture.multi_drag_start[gesture.btn]
            delta == <<U[1] - primary[1], U[2] - primary[2]>>
        IN  \A i \in DOMAIN buttons :
                buttons[i].selected =>
                    LET start == gesture.multi_drag_start[i]
                    IN  <<buttons[i].wx, buttons[i].wy>> =
                            ClampToCanvas(<<NearestMultiple(start[1] + delta[1]),
                                            NearestMultiple(start[2] + delta[2])>>)

\* C14: after any sequence of create, drop-create, drag, auto-arrange and
\* undo/redo operations on a canvas of fixed size at least as large as a
\* tile, every shortcut's position satisfies 0 <= x <= canvasWidth -
\* tileWidth and 0 <= y <= canvasHeight - tileHeight.
C14_PositionsInCanvas ==
    \A i \in DOMAIN buttons :
        /\ 0 <= buttons[i].wx /\ buttons[i].wx <= FrameW - get_button_size(config)[1]
        /\ 0 <= buttons[i].wy /\ buttons[i].wy <= FrameH - get_button_size(config)[2]

\* ---------------------------------------------- the worker specification
\* ShortcutsApp.drop_files_on_window: the paths are normalized, the loading
\* dialog takes the grab and the worker thread is started.
drop_files_on_window(files) ==
    /\ Idle
    /\ gesture.widget = "none"
    /\ worker.pc = "none"
    /\ files # <<>>
    /\ worker' = [pc |-> "started", files |-> [i \in DOMAIN files |-> normpath(files[i])],
                  all_files |-> <<>>]
    /\ Event(App, "drop_files_on_window")
    /\ UNCHANGED <<buttons_locked, editor, loaded, saved, gesture, marquee, fsys, refs, frame, startup, links>>

\* Mutant: the worker thread makes the shortcut itself.
process_and_create ==
    /\ worker.pc = "started"
    /\ Len(buttons) < MaxButtons
    /\ worker' = NoWorker
    /\ Event(shortcut_after_processing(App, process_dropped_files(worker.files), "a"),
             "process_in_background")
    /\ UNCHANGED <<buttons_locked, editor, loaded, saved, gesture, marquee, fsys, refs, frame, startup, links>>

\* process_in_background, on the worker thread: the paths are classified
\* and the callback is handed to the interaction thread (root.after(0, ...)).
process_in_background ==
    /\ worker.pc = "started"
    /\ worker' = [worker EXCEPT !.pc = "posted",
                                !.all_files = process_dropped_files(worker.files)]
    /\ Event(App, "process_in_background")
    /\ UNCHANGED <<buttons_locked, editor, loaded, saved, gesture, marquee, fsys, refs, frame, startup, links>>

\* The callback runs on the interaction thread: the loading dialog goes, the
\* name dialog is answered `shortcut_name` and the shortcut is made from
\* what the worker found.
after_callback(shortcut_name) ==
    /\ worker.pc = "posted"
    /\ Len(buttons) < MaxButtons
    /\ worker' = NoWorker
    /\ steps < MaxEvents
    /\ Handled(shortcut_after_processing(App, worker.all_files, shortcut_name),
               "create_shortcut_after_processing", [input |-> shortcut_name])
    /\ UNCHANGED <<buttons_locked, editor, loaded, saved, gesture, marquee, fsys, refs, frame, startup, links>>

\* Batches of paths dropped on the window.
WindowDrops == {<<<<"d1", "f">>>>, <<<<"d1", ".", "f">>, <<"d2", "g">>>>}

WorkerInit ==
    /\ saved = <<SavedButton(10, 10)>>
    /\ fsys = StartFiles
    /\ frame = <<DefaultW, DefaultH>>
    /\ Constructed

\* The loading dialog holds the grab while a drop is processed: pointer and
\* key events reach the canvas only when no drop is in progress.  Timers and
\* the file system do not wait.
Ungrabbed == worker.pc = "none"

WorkerNext ==
    \/ load_buttons_from_data
    \/ \E files \in WindowDrops : drop_files_on_window(files)
    \/ process_in_background
    \/ \E input \in NameInputs : after_callback(input)
    \/ Ungrabbed /\ \E b \in 1..MaxButtons, off \in PressOffsets : click_press(b, off, FALSE)
    \/ Ungrabbed /\ click_release
    \/ \E b \in 1..MaxButtons : mouse_action(b)
    \/ editor_cancel
    \/ Ungrabbed /\ undo_handler
    \/ Ungrabbed /\ \E b \in 1..MaxButtons, input \in NameInputs : rename(b, input)
    \/ \E p \in {<<"d1", "f">>}, q \in Paths : rename_file(p, q)

WorkerSpec == WorkerInit /\ [][WorkerNext]_vars

\* ---------------------------------------------- the start-up specification
\* What DATA_FILE can hold when the program starts: nothing, a JSON object
\* with the saved buttons, text that is not JSON, bytes that are not UTF-8,
\* a file the process may not read, or JSON whose top level is an array.
StateFiles == {"absent", "object", "malformed", "undecodable", "unreadable", "array"}

EmptyData == [kind |-> "dict", buttons |-> <<>>]

\* What open(DATA_FILE) and json.load(f) raise on the file ("": nothing).
raised_by_json_load(file) ==
    CASE file = "malformed" -> "JSONDecodeError"
      [] file = "undecodable" -> "UnicodeDecodeError"
      [] file = "unreadable" -> "PermissionError"
      [] OTHER -> ""

\* load_data: self.data, or the exception that leaves load_data.  The only
\* except clause is for json.JSONDecodeError.
load_data(file, content) ==
    IF file = "absent"
    THEN [raised |-> "", data |-> EmptyData]
    ELSE IF raised_by_json_load(file) = "JSONDecodeError"
    THEN [raised |-> "", data |-> EmptyData]
    ELSE IF raised_by_json_load(file) # ""
    THEN [raised |-> raised_by_json_load(file), data |-> <<>>]
    ELSE IF file = "array"
    THEN [raised |-> "", data |-> [kind |-> "list"]]
    ELSE [raised |-> "", data |-> [kind |-> "dict", buttons |-> content]]

\* ShortcutsApp.__init__ from load_data on: self.data.get("config", {}) needs
\* a dict; an exception that leaves __init__ ends the program before mainloop.
ShortcutsApp_init ==
    /\ startup.phase = "constructing"
    /\ LET read == load_data(startup.file, startup.content)
       IN  IF read.raised # "" \/ read.data.kind # "dict"
           THEN /\ startup' = [startup EXCEPT !.phase = "failed"]
                /\ saved' = saved
           ELSE /\ startup' = [startup EXCEPT !.phase = "running"]
                /\ saved' = read.data.buttons
    /\ Commit(App, "load_data")
    /\ UNCHANGED <<buttons_locked, editor, loaded, gesture, marquee, fsys, refs, frame, worker, links>>

StartInit ==
    /\ \E file \in StateFiles :
         \E content \in IF file = "object"
                        THEN {<<>>, <<SavedButton(10, 10)>>,
                              <<SavedButton(0, 0), SavedButton(120, 0)>>}
                        ELSE {<<>>} :
            startup = [file |-> file, content |-> content, phase |-> "constructing"]
    /\ saved = <<>>
    /\ fsys = StartFiles
    /\ frame = <<DefaultW, DefaultH>>
    /\ Blank

StartNext ==
    \/ ShortcutsApp_init
    \/ load_buttons_from_data
    \/ new_button_at_fixed_pos
    \/ undo_handler
    \/ redo_handler
    \/ \E b \in 1..MaxButtons, input \in NameInputs : rename(b, input)
    \/ \E b \in 1..MaxButtons : ctrl_click(b)
    \/ toggle_lock

StartSpec == StartInit /\ [][StartNext]_vars

\* --------------------------------------------------- the link specification
\* The names an entry of a destination folder can have.
LinkNames == {"f", "g"}
\* The folders askdirectory can return: any of the names may be taken.
DestDirs == [LinkNames -> {NoEntry, OldEntry}]

\* Mutant: the loop ends at the first item that fails.
RECURSIVE link_items_until_failure(_, _, _, _, _, _)
link_items_until_failure(files, i, acc, overwrite, remove_fails, symlink_fails) ==
    IF i > Len(files) \/ acc.failed # <<>> THEN acc
    ELSE LET src == resolve_file_path(files[i])
             name == basename(src)
             item == [item |-> i, name |-> name]
             next == IF acc.dest[name] # NoEntry /\ ~overwrite[i]
                     THEN [acc EXCEPT !.skipped = Append(@, item)]
                     ELSE IF acc.dest[name] # NoEntry /\ remove_fails[i]
                     THEN [acc EXCEPT !.failed = Append(@, item)]
                     ELSE IF symlink_fails[i]
                     THEN [acc EXCEPT !.dest[name] = NoEntry, !.failed = Append(@, item)]
                     ELSE [acc EXCEPT !.dest[name] = LinkTo(src), !.created = Append(@, item)]
         IN  link_items_until_failure(files, i + 1, next, overwrite, remove_fails, symlink_fails)

\* The loop of create_symlinks from item i on.  overwrite[i] is the answer
\* to 'Overwrite the symlink?', remove_fails[i] and symlink_fails[i] tell
\* whether os.remove and os.symlink raise for item i, when they are called.
\* The lists hold the item's name, tagged with the item's number.
RECURSIVE link_items(_, _, _, _, _, _)
link_items(files, i, acc, overwrite, remove_fails, symlink_fails) ==
    IF i > Len(files) THEN acc
    ELSE LET src == resolve_file_path(files[i])
             name == basename(src)
             item == [item |-> i, name |-> name]
             next == IF acc.dest[name] # NoEntry /\ ~overwrite[i]
                     THEN [acc EXCEPT !.skipped = Append(@, item)]
                     ELSE IF acc.dest[name] # NoEntry /\ remove_fails[i]
                     THEN [acc EXCEPT !.failed = Append(@, item)]
                     ELSE IF symlink_fails[i]
                     THEN [acc EXCEPT !.dest[name] = NoEntry, !.failed = Append(@, item)]
                     ELSE [acc EXCEPT !.dest[name] = LinkTo(src), !.created = Append(@, item)]
         IN  link_items(files, i + 1, next, overwrite, remove_fails, symlink_fails)

\* ShortcutButton.create_symlinks on button b, the folder dest_dir chosen.
create_symlinks(b, dest_dir, overwrite, remove_fails, symlink_fails) ==
    LET files == buttons[b].data.files
        start == [ran |-> TRUE, before |-> dest_dir, dest |-> dest_dir,
                  created |-> <<>>, skipped |-> <<>>, failed |-> <<>>]
    IN  /\ Idle
        /\ b \in DOMAIN buttons
        /\ files # <<>>
        /\ links' = link_items(files, 1, start, overwrite, remove_fails, symlink_fails)
        /\ CommitArg(resolve_button_files(App, b), "create_symlinks", [b |-> b])
        /\ UNCHANGED <<buttons_locked, editor, loaded, saved, gesture, marquee, fsys, refs,
                       frame, worker, startup>>

\* Two saved shortcuts: one with d1/f and d2/f, which have the same name, one
\* with d1/f alone.
LinkInit ==
    /\ saved = <<[SavedButton(10, 10) EXCEPT !.files = <<[str |-> <<"d1", "f">>],
                                                         [str |-> <<"d2", "f">>]>>],
                 [SavedButton(130, 10) EXCEPT !.files = <<[str |-> <<"d1", "f">>]>>]>>
    /\ fsys = StartFiles
    /\ frame = <<DefaultW, DefaultH>>
    /\ Constructed

Answers == [1..MaxFiles -> BOOLEAN]

LinkNext ==
    \/ load_buttons_from_data
    \/ \E b \in 1..MaxButtons, dest_dir \in DestDirs :
          \E overwrite \in Answers, remove_fails \in Answers, symlink_fails \in Answers :
             create_symlinks(b, dest_dir, overwrite, remove_fails, symlink_fails)
    \/ rename_file(<<"d1", "f">>, <<"d1", "g">>)

LinkSpec == LinkInit /\ [][LinkNext]_vars

\* -------------------------------------------- the decision specification
\* The handlers that ask the user before they act, with the selection and
\* the history they act on.
DecisionNext ==
    \/ load_buttons_from_data
    \/ \E b \in 1..MaxButtons : ctrl_click(b)
    \/ undo_handler
    \/ redo_handler
    \/ \E b \in 1..MaxButtons, input \in NameInputs : rename(b, input)
    \/ \E input \in NameInputs : batch_rename(input)
    \/ \E b \in 1..MaxButtons, yes \in BOOLEAN : confirm_delete(b, yes)
    \/ \E yes \in BOOLEAN : delete_selected_buttons(yes)
    \/ \E files \in DropInputs, input \in NameInputs :
          create_shortcut_after_processing(files, input)

DecisionSpec == Init /\ [][DecisionNext]_vars

\* ------------------------------------------- the file-list specification
\* The file lists of the shortcuts under the editor, drops on a button and
\* renames on disk.  The state file holds a shortcut with the file d1/f,
\* stored as a bare string by an older version, and one without files.
FileListInit ==
    /\ saved = <<[SavedButton(10, 10) EXCEPT !.files = <<[str |-> <<"d1", "f">>]>>],
                 SavedButton(130, 10)>>
    /\ fsys = StartFiles
    /\ frame = <<DefaultW, DefaultH>>
    /\ Constructed

\* Batches of paths offered to the editor or dropped on a button.
AddInputs ==
    {<<<<"d1", "f">>>>, <<<<"d1", "g">>>>, <<<<"d1", ".", "f">>>>,
     <<<<"d1", "f">>, <<"d2", "f">>>>}

FileListNext ==
    \/ load_buttons_from_data
    \/ \E b \in 1..MaxButtons : open_editor(b)
    \/ \E paths \in AddInputs : \E answers \in [DOMAIN paths -> BOOLEAN] :
          editor_process_new(paths, answers)
    \/ \E sel \in SUBSET (1..MaxFiles), yes \in BOOLEAN : editor_delete_selected(sel, yes)
    \/ editor_on_close
    \/ editor_cancel
    \/ \E b \in 1..MaxButtons, files \in AddInputs, yes \in BOOLEAN :
          drop_files_on_button(b, files, yes)
    \/ \E p \in {<<"d1", "f">>, <<"d1", "g">>}, q \in Paths : rename_file(p, q)

FileListSpec == FileListInit /\ [][FileListNext]_vars

\* ------------------------------------------------- claims on file tracking
\* C20: when the file of a tracked reference (identity I, parent D) has been
\* renamed to another name inside D, identity unchanged, and nothing exists
\* at the old path, resolve returns the new path and sets the cached path to
\* it; a second resolve with no file-system change in between returns the
\* same path and changes nothing.
C20_RenameSurvival ==
    /\ (op = "resolve_file_path" /\ ~IsLegacy(pre.refs.entry)
          /\ pre.refs.entry.inode # 0 /\ fsys[pre.refs.entry.path] = 0) =>
        \A q \in Paths :
            (q[1] = pre.refs.entry.parent /\ fsys[q] = pre.refs.entry.inode) =>
                /\ refs.returned = q
                /\ refs.entry = [pre.refs.entry EXCEPT !.path = q]
    /\ (op = "resolve_file_path" /\ pre.op = "resolve_file_path") =>
        /\ refs.returned = pre.refs.returned
        /\ refs.entry = pre.refs.entry

\* The entry made for d1/f was resolved twice after the file had been
\* renamed to d1/g: both times d1/g was returned and it is the cached path.
C20_Witness ==
    /\ op = "resolve_file_path" /\ pre.op = "resolve_file_path"
    /\ refs.created = <<"d1", "f">> /\ fsys[refs.created] = 0
    /\ refs.returned = <<"d1", "g">>
    /\ refs.entry.path = <<"d1", "g">>
    /\ refs.entry.inode = fsys[<<"d1", "g">>]

\* The entry resolved last was still as get_file_info made it, and the path
\* it was made for, once normalized, existed.
FreshAndPresent ==
    /\ op = "resolve_file_path"
    /\ refs.created # <<>>
    /\ pre.refs.entry.path = normpath(refs.created)
    /\ fsys[normpath(refs.created)] > 0

\* C21 as stated: for every path p that exists at resolution time,
\* resolve(create(p)) is p itself, and the resolve leaves the reference as
\* it was.
C21_RoundTripVerbatim ==
    FreshAndPresent => refs.returned = refs.created /\ refs.entry = pre.refs.entry

\* C21 amended: for every path p whose normalized form exists at resolution
\* time, resolve(create(p)) is the normalized form of p, and the resolve
\* leaves the reference as it was.
C21_RoundTrip ==
    FreshAndPresent => refs.returned = normpath(refs.created) /\ refs.entry = pre.refs.entry

\* An entry made for d1/./f while nothing was there was resolved after a
\* file had appeared at d1/f, and a file of the recorded parent exists
\* beside it.
C21_Witness ==
    /\ FreshAndPresent
    /\ refs.created = <<"d1", ".", "f">>
    /\ refs.returned = <<"d1", "f">>
    /\ refs.entry.inode = 0
    /\ fsys[<<"d1", "g">>] # 0

\* The tracked entry resolved last had a cached path that did not exist.
ResolvedStale ==
    /\ op = "resolve_file_path"
    /\ ~IsLegacy(pre.refs.entry)
    /\ fsys[pre.refs.entry.path] <= 0

\* The paths that now carry the identity the entry recorded, inside the
\* parent directory it recorded.
Matching(entry) == {q \in Paths : q[1] = entry.parent /\ fsys[q] = entry.inode}

\* C22: resolve never fails.  When the cached path does not exist and the
\* identity is absent, or the parent is absent or missing, or no entry of
\* the parent has the identity (entries whose probe fails included),
\* resolve returns the cached path and leaves the reference unchanged; an
\* entry whose probe fails does not keep a matching entry from being found.
C22_NeverFails ==
    /\ (ResolvedStale /\ (pre.refs.entry.inode = 0 \/ Matching(pre.refs.entry) = {})) =>
            /\ refs.returned = pre.refs.entry.path
            /\ refs.entry = pre.refs.entry
    /\ (ResolvedStale /\ pre.refs.entry.inode # 0) =>
            \A q \in Matching(pre.refs.entry) : refs.returned = q

\* The file of an entry made for d1/g is gone and d1/f, scanned first, is an
\* entry whose probe fails: resolve returned the cached path d1/g.
C22_Witness ==
    /\ ResolvedStale
    /\ pre.refs.entry.path = <<"d1", "g">> /\ pre.refs.entry.inode # 0
    /\ fsys[<<"d1", "f">>] = -1 /\ fsys[<<"d1", "g">>] = 0
    /\ refs.returned = <<"d1", "g">>

\* C23 as stated: a legacy entry (bare path string) of a persisted file list
\* is never re-located by identity; at any time after it was loaded, and
\* after any rename of the file, resolving it returns the stored string.
C23_LegacyAfterLoad ==
    (op = "resolve_file_path" /\ IsLegacy(refs.stored)) => refs.returned = refs.stored.str

\* C23 amended: resolving a legacy reference returns its stored string and
\* changes nothing, whatever the file system holds; loading converts a
\* legacy entry into a tracked reference for the normalized stored path,
\* with the identity the path has at that time, in its parent directory.
C23_LegacyConverted ==
    /\ (op = "resolve_file_path" /\ IsLegacy(pre.refs.entry)) =>
            /\ refs.returned = refs.stored.str
            /\ refs.entry = refs.stored
    /\ (op = "normalize_file_list" /\ IsLegacy(refs.stored)) =>
            LET p == normpath(refs.stored.str)
            IN  /\ ~IsLegacy(refs.entry)
                /\ refs.entry.path = p
                /\ refs.entry.inode = (IF fsys[p] > 0 THEN fsys[p] ELSE 0)
                /\ refs.entry.parent = p[1]

\* A legacy string for d1/f was resolved after its file had been renamed to
\* d1/g: the string came back.
C23_Witness ==
    /\ op = "resolve_file_path" /\ IsLegacy(pre.refs.entry)
    /\ refs.stored.str = <<"d1", "f">>
    /\ fsys[<<"d1", "f">>] = 0 /\ fsys[<<"d1", "g">>] = 11
    /\ refs.returned = <<"d1", "f">>

\* ---------------------------------------------------- claims on file lists
\* A handler that adds paths to a shortcut ran: the editor's add / drop, or
\* a drop on a tile.
AddedFiles == op \in {"_process_new", "drop_files_on_button"}

\* The shortcut's list before and after it, and the reply to the duplicate
\* question for the i-th incoming path.
ListBefore ==
    IF op = "_process_new" THEN pre.editor.file_list ELSE pre.live.buttons[arg.b].files
ListAfter ==
    IF op = "_process_new" THEN editor.file_list ELSE buttons[arg.b].data.files
Answer(i) == IF op = "_process_new" THEN arg.answers[i] ELSE arg.yes

\* How many entries of a list resolve to path p.
Count(list, p) == Cardinality({k \in DOMAIN list : resolve_file_path(list[k]) = p})

\* The i-th incoming path, normalized, and whether the batch has it once.
Incoming(i) == normpath(arg.paths[i])
Once(i) == \A k \in DOMAIN arg.paths : Incoming(k) = Incoming(i) => k = i

\* C24: for every way of adding paths (editor add / drop, drop on a tile) an
\* incoming path equal to the resolved path of an existing file is appended
\* as a new reference when the confirmation is answered yes and skipped
\* when it is answered no.
C24_DuplicateDecision ==
    AddedFiles =>
        \A i \in DOMAIN arg.paths :
            (Once(i) /\ Count(ListBefore, Incoming(i)) > 0) =>
                Count(ListAfter, Incoming(i)) =
                    Count(ListBefore, Incoming(i)) + (IF Answer(i) THEN 1 ELSE 0)

\* C25: an incoming path (of an existing file) that matches no resolved
\* path of the shortcut is appended exactly once, whatever is answered for
\* the duplicates of the batch and whatever their names are.
C25_NonDuplicates ==
    AddedFiles =>
        \A i \in DOMAIN arg.paths :
            (Once(i) /\ Count(ListBefore, Incoming(i)) = 0 /\ fsys[Incoming(i)] > 0) =>
                Count(ListAfter, Incoming(i)) = 1

\* The rows removed from the editor's list: T holds the resolved paths of
\* the selected rows.
RemovedFiles == op = "delete_selected" /\ arg.yes
TargetPaths == {pre.editor.tree[k] : k \in arg.sel}

\* A list without its entries that resolve into T, each entry with the
\* path it resolves to as its cached path.
RECURSIVE Without(_, _)
Without(list, T) ==
    IF list = <<>> THEN <<>>
    ELSE LET rest == Without(Tail(list), T)
         IN  IF resolve_file_path(Head(list)) \in T THEN rest
             ELSE <<[Head(list) EXCEPT !.path = resolve_file_path(Head(list))]>> \o rest

\* C26: removeFiles with target set T leaves exactly the entries whose
\* resolved current path is not in T, in their order; every entry resolving
\* into T is gone; with T empty the list is unchanged.
C26_RemoveFiles ==
    RemovedFiles =>
        /\ Without(editor.file_list, {}) = Without(pre.editor.file_list, TargetPaths)
        /\ \A k \in DOMAIN editor.file_list :
               resolve_file_path(editor.file_list[k]) \notin TargetPaths
        /\ TargetPaths = {} => editor.file_list = pre.editor.file_list

\* Of two rows one was selected and removed; the other, whose file had been
\* renamed since the list was shown, stays under its new path.
C26_Witness ==
    /\ RemovedFiles
    /\ Len(pre.editor.file_list) = 2 /\ Cardinality(arg.sel) = 1
    /\ Len(editor.file_list) = 1
    /\ editor.file_list[1].path \notin {pre.editor.file_list[1].path,
                                        pre.editor.file_list[2].path}

\* ----------------------------------------------------- claims on decisions
\* The handler that ran last asked for a name and got none, or asked for a
\* confirmation and got no.
Declined ==
    \/ op \in {"rename", "batch_rename", "create_shortcut_after_processing"} /\ arg.input = ""
    \/ op \in {"confirm_delete", "delete_selected_buttons"} /\ ~arg.yes

\* C27: a cancelled, unanswered or negative decision changes nothing: after
\* a cancelled or empty rename or batch-rename prompt, a delete confirmation
\* answered no, or a cancelled name prompt for a dropped batch, the
\* shortcuts, the configuration, the history entries and the cursor are as
\* before.
C27_DeclinedChangesNothing ==
    Declined =>
        /\ LiveState = pre.live
        /\ history = pre.history
        /\ history_index = pre.history_index
        /\ npush = 0

\* A rename prompt was cancelled while the cursor stood before the end of
\* the history of a two-button canvas.
C27_Witness ==
    /\ op = "rename" /\ arg.input = ""
    /\ Len(buttons) = 2
    /\ history_index + 1 < Len(history)

\* ---------------------------------------------------- claims on the worker
\* C28: the background worker never mutates shared state.  From the start
\* of the worker in drop_files_on_window to the callback, whatever the
\* interaction thread does in between, the worker changes no shortcut,
\* selection or history state; the new shortcut and its single checkpoint
\* are made in the callback only.
C28_WorkerIsolated ==
    /\ op \in {"drop_files_on_window", "process_in_background"} =>
            /\ LiveState = pre.live
            /\ SelectedSet(buttons) = pre.sel
            /\ history = pre.history
            /\ history_index = pre.history_index
            /\ npush = 0
    /\ (op = "create_shortcut_after_processing" /\ arg.input # "") =>
            /\ Len(buttons) = Len(pre.live.buttons) + 1
            /\ SubSeq(LiveState.buttons, 1, Len(pre.live.buttons)) = pre.live.buttons
            /\ npush = 1

\* The callback made the shortcut while the editor was open: a click timer
\* had fired while the worker was classifying, after a checkpoint of the
\* interaction thread.
C28_Witness ==
    /\ op = "create_shortcut_after_processing" /\ arg.input # ""
    /\ editor.open
    /\ Len(buttons) = 2
    /\ Len(history) > 2

\* The marquee release that was just handled ended a marquee in progress.
MarqueeReleased == op = "on_release" /\ pre.marquee.is_dragging
\* The final rectangle of that marquee, sorted, and the 10-unit threshold.
FinalRect == sorted_rect(pre.marquee.rect)
MarqueeThreshold == 10
Exceeds(r) == r[3] - r[1] > MarqueeThreshold /\ r[4] - r[2] > MarqueeThreshold
\* The tiles whose bounding box strictly overlaps the rectangle r.
Overlapped(r) ==
    {i \in DOMAIN buttons :
        LET bx1 == buttons[i].wx
            by1 == buttons[i].wy
            bx2 == bx1 + get_button_size(config)[1]
            by2 == by1 + get_button_size(config)[2]
        IN  r[1] < bx2 /\ r[3] > bx1 /\ r[2] < by2 /\ r[4] > by1}

\* C15: when a marquee is released and its rectangle never exceeded the
\* threshold (no movement, or only small movement), the Selection becomes
\* empty if no modifier key is held and is unchanged if one is held.
C15_BackgroundClick ==
    (MarqueeReleased /\ ~pre.marquee.exceeded) =>
        IF gesture.mod THEN SelectedSet(buttons) = pre.sel
        ELSE SelectedSet(buttons) = {}

\* C16: releasing a marquee whose final rectangle exceeds 10 units in both
\* width and height makes Selection = old Selection \cup {tiles whose
\* bounding box strictly overlaps the rectangle}.
C16_MarqueeCommit ==
    (MarqueeReleased /\ pre.marquee.rect # <<>> /\ Exceeds(FinalRect)) =>
        SelectedSet(buttons) = pre.sel \cup Overlapped(FinalRect)

\* A marquee added a tile to a non-empty selection and left the other tile
\* of the canvas, which it did not overlap, unselected or as it was.
C16_Witness ==
    /\ MarqueeReleased /\ pre.marquee.rect # <<>> /\ Exceeds(FinalRect)
    /\ pre.sel # {}
    /\ Overlapped(FinalRect) # {}
    /\ Overlapped(FinalRect) \cap pre.sel = {}

\* C17: a marquee release whose rectangle does not exceed 10 units in both
\* width and height adds no tile to the Selection, even when a tile's
\* bounding box overlaps the rectangle.
C17_MarqueeThreshold ==
    (MarqueeReleased /\ (pre.marquee.rect = <<>> \/ ~Exceeds(FinalRect))) =>
        SelectedSet(buttons) \subseteq pre.sel

\* A marquee 90 units wide and 5 high over an unselected tile was released.
C17_Witness ==
    /\ MarqueeReleased /\ pre.marquee.rect # <<>> /\ ~Exceeds(FinalRect)
    /\ FinalRect[3] - FinalRect[1] > MarqueeThreshold
    /\ Overlapped(FinalRect) \ pre.sel # {}

\* C18: cancelling a marquee in progress (Escape while MarqueeActive)
\* returns the selection machine to Idle with the rectangle and preview
\* discarded and leaves the Selection membership of every tile as it was.
C18_MarqueeCancel ==
    (op = "escape_key" /\ pre.marquee.is_dragging) =>
        /\ ~marquee.is_dragging /\ marquee.rect = <<>> /\ marquee.start = <<>>
        /\ marquee.border \subseteq SelectedSet(buttons)
        /\ SelectedSet(buttons) = pre.sel

\* C19: modifier-click on a tile flips only that tile's membership in the
\* Selection; the marquee state machine stays Idle and no tile position or
\* history entry changes, through the press, the release and the click
\* timer that follows.
C19_ModifierClick ==
    /\ op = "ctrl_click" =>
        /\ SelectedSet(buttons) = (pre.sel \ {gesture.btn}) \cup ({gesture.btn} \ pre.sel)
        /\ marquee = pre.marquee /\ ~marquee.is_dragging
        /\ LiveState = pre.live
        /\ history = pre.history /\ history_index = pre.history_index
    /\ ((op = "click_release" /\ pre.op = "ctrl_click") \/ op = "mouse_action") =>
        /\ SelectedSet(buttons) = pre.sel
        /\ marquee = pre.marquee /\ ~marquee.is_dragging
        /\ LiveState = pre.live
        /\ history = pre.history /\ history_index = pre.history_index

\* A modifier-click added a tile to a selection that held the other tile,
\* and the button was released.
C19_Witness ==
    /\ op = "click_release" /\ pre.op = "ctrl_click"
    /\ Cardinality(SelectedSet(buttons)) > 1

\* ----------------------------------------------------- claims on start-up
Corrupt == {"malformed", "undecodable", "unreadable", "array"}

\* C29: a corrupt or unreadable state file never fails start-up.  Whenever
\* DATA_FILE holds malformed JSON, undecodable or unreadable content, or
\* well-formed JSON of the wrong shape, construction ends with the program
\* running from the empty state of a missing file: no saved buttons, the
\* default configuration, and after the load no button and one checkpoint.
C29_CorruptFileStarts ==
    (startup.file \in Corrupt /\ startup.phase # "constructing")
        => /\ startup.phase = "running"
           /\ saved = <<>>
           /\ config = DefaultConfig
           /\ (op = "load_buttons_from_data" => buttons = <<>> /\ Len(history) = 1)

\* -------------------------------------------------- claims on the group drag
\* A position lies inside the canvas less the tile's footprint.
InsideCanvas(xy) == ClampToCanvas(xy) = xy

\* C30: clamping is per shortcut.  In a group drag where the primary tile's
\* candidate position lies outside the canvas and is clamped, every other
\* selected tile whose own candidate lies inside is placed at
\* snap(its drag start + unconstrained delta): it keeps following the
\* pointer and does not freeze with the primary.
C30_PerShortcutClamping ==
    (op = "do_drag" /\ gesture.dragging) =>
        LET U == <<gesture.pointer[1] - gesture.offset[1], gesture.pointer[2] - gesture.offset[2]>>
            primary == gesture.multi_drag_start[gesture.btn]
            delta == <<U[1] - primary[1], U[2] - primary[2]>>
        IN  ~InsideCanvas(U) =>
                \A i \in DOMAIN buttons \ {gesture.btn} :
                    LET start == gesture.multi_drag_start[i]
                        candidate == <<start[1] + delta[1], start[2] + delta[2]>>
                    IN  (buttons[i].selected /\ InsideCanvas(candidate)) =>
                            <<buttons[i].wx, buttons[i].wy>> =
                                <<NearestMultiple(candidate[1]), NearestMultiple(candidate[2])>>

\* ---------------------------------------------------- claims on the marquee
\* The marquee move that was just handled, and the rectangle between the
\* anchor and the pointer.
MarqueeMoved == op = "on_drag" /\ pre.marquee.is_dragging
MovedRect ==
    sorted_rect(<<pre.marquee.start[1], pre.marquee.start[2],
                  gesture.pointer[1], gesture.pointer[2]>>)
\* The tiles shown with the preview border that are not selected.
Previewed(m) == {i \in m.border : ~buttons[i].selected}

\* C31: on every marquee move, for every anchor point on the canvas, if the
\* rectangle exceeds 10 units in both axes the preview-highlighted tiles are
\* exactly the not-yet-selected tiles whose bounding box strictly overlaps
\* the rectangle; if it does not, no preview highlight changes; in both
\* cases the committed Selection is unchanged by the move.
C31_MarqueePreview ==
    MarqueeMoved =>
        /\ IF Exceeds(MovedRect)
           THEN Previewed(marquee) = Overlapped(MovedRect) \ SelectedSet(buttons)
           ELSE marquee.border = pre.marquee.border
        /\ SelectedSet(buttons) = pre.sel

\* The selection machine is Idle: no anchor, no rectangle, and no unselected
\* tile is left with the preview border.
MarqueeIdle ==
    /\ ~marquee.is_dragging
    /\ marquee.start = <<>> /\ marquee.rect = <<>>
    /\ marquee.border \subseteq SelectedSet(buttons)

\* The selection machine got its cancel event: Escape reached the canvas
\* overlay and SelectionManager.cancel_selection ran.
Cancelled == op = "escape_key" /\ arg.canvas_focus

\* C32: every marquee gesture ends in Idle.  A press on empty background
\* enters MarqueeActive with the press point as anchor, and after the
\* following release or cancel the machine is Idle with anchor and
\* rectangle cleared and no unselected tile left preview-highlighted; in
\* every reachable state a rectangle exists only while MarqueeActive, and
\* move and release events received while Idle change nothing.
C32_MarqueeEndsIdle ==
    /\ op = "on_start" => marquee.is_dragging /\ marquee.start = gesture.press
    /\ ((op = "on_release" \/ Cancelled) /\ pre.marquee.is_dragging) => MarqueeIdle
    /\ marquee.rect # <<>> => marquee.is_dragging
    /\ (op \in {"on_drag", "on_release"} /\ ~pre.marquee.is_dragging) =>
           /\ marquee = pre.marquee
           /\ LiveState = pre.live
           /\ history = pre.history /\ history_index = pre.history_index

\* ------------------------------------------------ claims on action and undo
\* The handlers that make one checkpointed action: create, delete, rename,
\* recolor and the release that completes a drag.
CheckpointedActions ==
    {"create_button", "confirm_delete", "rename", "change_color", "click_release"}

\* An undo was just handled, and the handler before it was one checkpointed
\* action that pushed its checkpoint.
ActionThenUndo ==
    /\ op = "undo"
    /\ pre.op \in CheckpointedActions
    /\ pre.before_action.npush = 1

\* C33: action-then-undo.  From any state reached by any sequence of user
\* actions (file-list edits, lock toggles and font changes included), one
\* checkpointed action A followed by undo restores the live shortcuts and
\* the configuration to exactly their value immediately before A.
C33_ActionThenUndo ==
    ActionThenUndo => LiveState = pre.before_action.live

\* ------------------------------------------------------ claims on the lock
\* C34: lock flag consistency.  In every reachable state, after any
\* sequence of toggle_lock, checkpointed actions, undo and redo, the flag
\* that gates dragging (buttons_locked) equals the locked value stored in
\* the live configuration (config["buttons_locked"]).
C34_LockFlagConsistent == buttons_locked = config.buttons_locked

\* No button has a drag-start position.
NoDragStarts == \A i \in 1..MaxButtons : gesture.multi_drag_start[i] = <<>>

\* C35: while buttons are locked, a press-move-release gesture on a tile
\* with any amount of movement changes no tile's position, records no
\* drag-start positions and pushes no history checkpoint.
C35_LockedGesture ==
    (buttons_locked /\ op \in {"click_press", "do_drag", "click_release"}) =>
        /\ Positions(LiveState.buttons) = Positions(pre.live.buttons)
        /\ NoDragStarts
        /\ npush = 0 /\ history = pre.history /\ history_index = pre.history_index
        /\ op = "click_release" =>
               Positions(LiveState.buttons) = Positions(pre.gesture.at_press)

\* A locked tile was pressed, the pointer moved 23 units and was released.
C35_Witness ==
    /\ buttons_locked /\ op = "click_release"
    /\ pre.op = "do_drag" /\ pre.gesture.travel >= 23
    /\ Positions(LiveState.buttons) = Positions(pre.gesture.at_press)

\* ---------------------------------------------------- claims on the editor
\* The tracked references of a file list, in order: each entry's identity
\* and parent folder, without the cached path that resolving refreshes.
Entries(files) ==
    [i \in DOMAIN files |-> [inode |-> files[i].inode, parent |-> files[i].parent]]

\* C36: closing the file editor through Cancel or Escape after any sequence
\* of add and remove edits leaves the shortcut's file list with the same
\* entries in the same order as when the editor was opened and pushes no
\* checkpoint; the shortcut's own file list is not modified by any edit
\* before Save & Close.
C36_EditorCancel ==
    /\ (op = "cancel" /\ pre.editor.open) =>
           /\ Entries(buttons[pre.editor.btn].data.files) = Entries(pre.editor.original)
           /\ npush = 0 /\ history_index = pre.history_index
           /\ Len(history) = Len(pre.history)
    /\ editor.open =>
           Entries(buttons[editor.btn].data.files) = Entries(editor.original)

\* The editor was cancelled after a file had been added to its one row.
C36_Witness ==
    /\ op = "cancel" /\ pre.editor.open
    /\ Len(pre.editor.original) = 1
    /\ Len(pre.editor.file_list) = 2
    /\ Len(buttons[pre.editor.btn].data.files) = 1

\* ------------------------------------------- claims on the relative layout
\* A drag move was just handled and the drag is on.
DragMoved == op = "do_drag" /\ gesture.dragging
\* Where tile i was when the drag started.
StartOf(i) == <<gesture.at_press[i].x, gesture.at_press[i].y>>
\* The candidate of tile i: its drag start plus the primary's unconstrained
\* displacement (pointer minus initial offset minus the primary's start).
Candidate(i) ==
    <<StartOf(i)[1] + gesture.pointer[1] - gesture.offset[1] - StartOf(gesture.btn)[1],
      StartOf(i)[2] + gesture.pointer[2] - gesture.offset[2] - StartOf(gesture.btn)[2]>>
\* No selected tile's snapped candidate is clamped at a canvas boundary.
NoneClamped ==
    \A i \in SelectedSet(buttons) :
        InsideCanvas(<<NearestMultiple(Candidate(i)[1]), NearestMultiple(Candidate(i)[2])>>)
\* Tiles i and j are as far apart as they were at drag start.
OffsetKept(i, j) ==
    /\ buttons[i].wx - buttons[j].wx = StartOf(i)[1] - StartOf(j)[1]
    /\ buttons[i].wy - buttons[j].wy = StartOf(i)[2] - StartOf(j)[2]
\* The drag starts of i and j differ by multiples of the grid size.
GridApart(i, j) ==
    /\ (StartOf(i)[1] - StartOf(j)[1]) % grid_size = 0
    /\ (StartOf(i)[2] - StartOf(j)[2]) % grid_size = 0

\* C37 as stated: when no selected tile's candidate position is clamped at
\* a canvas boundary, the offset between any two selected tiles after a
\* drag move equals their offset at drag start, for all integer drag-start
\* positions.
C37_OffsetsPreserved ==
    (DragMoved /\ NoneClamped) =>
        \A i, j \in SelectedSet(buttons) : OffsetKept(i, j)

\* C37 amended: when no selected tile's candidate position is clamped at a
\* canvas boundary, the offset between any two selected tiles whose
\* drag-start positions differ by a multiple of the grid size on each axis
\* equals, after a drag move, their offset at drag start.
C37_GridOffsetsPreserved ==
    (DragMoved /\ NoneClamped) =>
        \A i, j \in SelectedSet(buttons) : GridApart(i, j) => OffsetKept(i, j)

\* Two selected tiles 40 units apart were dragged 23 units to the right and
\* are still 40 units apart.
C37_Witness ==
    /\ DragMoved /\ NoneClamped
    /\ SelectedSet(buttons) = {1, 2}
    /\ GridApart(1, 2)
    /\ gesture.travel >= 23
    /\ buttons[1].wx # StartOf(1)[1]
    /\ OffsetKept(1, 2)

\* ------------------------------------------------ claims on the drag's path
\* Where tile i is placed by a single move from the drag start to the
\* current pointer position: a function of the pointer, the press offset
\* and the recorded drag starts alone.
DirectlyPlaced(i) ==
    LET new == drag_clamp(snap_to_grid(gesture.pointer[1] - gesture.offset[1],
                                       gesture.pointer[2] - gesture.offset[2]), config)
        primary == gesture.multi_drag_start[gesture.btn]
    IN  drag_place(gesture.multi_drag_start[i],
                   <<new[1] - primary[1], new[2] - primary[2]>>, config)

\* C38: drag is path-independent and touches only the selection.  Within
\* one drag gesture the position of every selected tile after a move event
\* depends only on the current pointer position and the drag-start
\* positions recorded at drag start, not on the intermediate move events;
\* the position of every unselected tile is unchanged throughout the
\* gesture.
C38_PathIndependent ==
    /\ DragMoved =>
           /\ \A i \in SelectedSet(buttons) :
                  <<buttons[i].wx, buttons[i].wy>> = DirectlyPlaced(i)
           /\ pre.gesture.dragging => gesture.multi_drag_start = pre.gesture.multi_drag_start
    /\ op = "do_drag" =>
           \A i \in DOMAIN buttons \ SelectedSet(buttons) :
               <<buttons[i].wx, buttons[i].wy>> = Positions(pre.live.buttons)[i]
    /\ op \in {"click_press", "ctrl_click", "click_release"} =>
           Positions(LiveState.buttons) = Positions(pre.live.buttons)

\* The second move of a drag placed the dragged tile somewhere else than the
\* first had, while the other tile, unselected, stayed where it was.
C38_Witness ==
    /\ DragMoved /\ pre.op = "do_drag" /\ pre.gesture.dragging
    /\ SelectedSet(buttons) = {gesture.btn}
    /\ Len(buttons) = 2
    /\ buttons[gesture.btn].wx # pre.live.buttons[gesture.btn].x
    /\ buttons[gesture.btn].wx # StartOf(gesture.btn)[1]

\* ------------------------------------------------- claims on link creation
\* create_symlinks was just handled; the shortcut's files, and the numbers
\* of the items a list holds.
LinksMade == op = "create_symlinks" /\ links.ran
LinkedFiles == buttons[arg.b].data.files
ItemsOf(list) == {list[k].item : k \in DOMAIN list}
NameOf(i) == basename(LinkedFiles[i].path)
\* The items other than i that were not skipped: those that may have made,
\* removed or replaced a destination entry.
Others(i) == (DOMAIN LinkedFiles \ {i}) \ ItemsOf(links.skipped)

\* C39: link creation partitions its items.  For a shortcut with n files
\* every file ends in exactly one of created, skipped or failed, so
\* |created| + |skipped| + |failed| = n; a failure or a declined overwrite
\* on one item never stops the processing of the later items; a declined
\* overwrite leaves the pre-existing destination entry untouched.
C39_LinkPartition ==
    LinksMade =>
        /\ Len(links.created) + Len(links.skipped) + Len(links.failed) = Len(LinkedFiles)
        /\ ItemsOf(links.created) \cup ItemsOf(links.skipped) \cup ItemsOf(links.failed)
               = DOMAIN LinkedFiles
        /\ \A i \in ItemsOf(links.skipped) :
               (\A j \in Others(i) : j > i => NameOf(j) # NameOf(i)) =>
                   /\ links.dest[NameOf(i)] # NoEntry
                   /\ (\A j \in Others(i) : j < i => NameOf(j) # NameOf(i)) =>
                          /\ links.before[NameOf(i)] # NoEntry
                          /\ links.dest[NameOf(i)] = links.before[NameOf(i)]

\* Of two files the first failed and the second, of another name, was
\* skipped on a declined overwrite: the entry of that name is as it was.
C39_Witness ==
    /\ LinksMade
    /\ Len(LinkedFiles) = 2
    /\ ItemsOf(links.failed) = {1}
    /\ ItemsOf(links.skipped) = {2}
    /\ NameOf(1) # NameOf(2)
    /\ links.dest[NameOf(2)] = OldEntry

====
